---- MODULE Spec2Model ----
(***************************************************************************)
(* Model of the PaynesDashboard widget subsystem:                          *)
(*   - OAuth2Manager      (src/src/index.ts)                               *)
(*   - BaseWidget and the nine vendor widgets (src/src/widgets/*.ts,       *)
(*     src/unnamed/part_001 = RSSFeedWidget, part_002 = TikTokWidget)      *)
(*   - WidgetRegistry     (src/src/widgets/WidgetRegistry.ts)              *)
(*                                                                         *)
(* Time is counted in seconds.  An optional JavaScript value is a          *)
(* sequence of length 0 (undefined) or 1 (the value).                      *)
(***************************************************************************)
EXTENDS Integers, Sequences, FiniteSets, TLC

VARIABLES
    now,        \* the wall clock, Date.now() in seconds
    config,     \* OAuth2Manager.config: the token state of one manager
    last,       \* the outcome of the last OAuth2Manager operation
    widget,     \* one vendor widget: the fields of BaseWidget and of its subclass
    wlast,      \* the outcome of the last operation on the widget
    factories,  \* WidgetRegistry.factories: widget type -> factory
    instances,  \* WidgetRegistry.instances: widget id -> tracked object
    objs,       \* the widget objects the registry's factories have built
    calls,      \* the registry calls suspended at an await, by caller
    rlast,      \* the outcome of the last registry call that completed
    heap,       \* the Date objects and scope arrays that configs refer to
    managers,   \* the configs of two OAuth2Managers built from one object
    callerConfig, \* the OAuth2Config object the caller built them from
    returned,   \* the object the last getConfig() returned
    mlast,      \* the last operation on the managers or on those objects
    campaigns,  \* CampaignManager.campaigns: campaign id -> campaign
    connectors, \* CampaignManager.connectors: platform -> connector
    nextId,     \* the number of ids generateId() has produced
    clast,      \* the outcome of the last CampaignManager call
    users,      \* UserService.users: the stored users
    ucalls,     \* the createUser calls suspended at the password hash
    ulast,      \* the outcome of the last UserService call that completed
    tcalls,     \* the getValidAccessToken calls suspended at the token request
    treqs,      \* the refresh requests sent to the token endpoint
    rss,        \* one RSSFeedWidget: feeds, feedData and initialized
    fcall,      \* the fetchAllFeeds call suspended at Promise.allSettled
    flast,      \* the outcome of the last RSSFeedWidget operation
    session,    \* AuthProvider state: user, token, isLoading
    storage,    \* localStorage: the stored token and user
    verify,     \* the getMe request of the mount effect
    scall,      \* the login / register / logout call suspended at the API
    slast       \* the last AuthProvider step and the session it established

oauthVars == <<config, last>>
widgetVars == <<widget, wlast>>
registryVars == <<factories, instances, objs, calls, rlast>>
managersVars == <<heap, managers, callerConfig, returned, mlast>>
campaignVars == <<campaigns, connectors, nextId, clast>>
userVars == <<users, ucalls, ulast>>
tokenCallVars == <<tcalls, treqs>>
rssVars == <<rss, fcall, flast>>
sessionVars == <<session, storage, verify, scall, slast>>
restVars == <<rssVars, sessionVars>>
extVars == <<managersVars, campaignVars, userVars, tokenCallVars, restVars>>
vars == <<now, oauthVars, widgetVars, registryVars, extVars>>

(***************************************************************************)
(* Bounds of the model and constants of the program                        *)
(***************************************************************************)
MaxTime == 60
TickStep == 30
BufferSeconds == 60

Undefined == <<>>
Some(x) == <<x>>

\* JavaScript truthiness of an optional string / an optional number
TruthyStr(o) == o # Undefined /\ o[1] # ""
TruthyNum(o) == o # Undefined /\ o[1] # 0

AccessTokens == {"a1", "a2"}
ExpiresInValues == {0, 30, 120}
ExpiryOffsets == {-30, 30, 120}

\* The outcomes of one HTTP request to the token endpoint: the request throws
\* (network failure), the endpoint answers non-2xx, or it answers a
\* TokenResponse.
TokenResponses ==
    [kind : {"throws", "non2xx"}, access_token : {"a1"},
     refresh_token : {Undefined}, expires_in : {Undefined}]
    \cup
    [kind : {"ok"}, access_token : AccessTokens,
     refresh_token : {Undefined} \cup {Some(r) : r \in {"", "r2"}},
     expires_in : {Undefined} \cup {Some(n) : n \in ExpiresInValues}]

(***************************************************************************)
(* OAuth2Manager                                                           *)
(***************************************************************************)
NewConfig(access, refresh) ==
    [accessToken |-> access, refreshToken |-> refresh, expiresAt |-> Undefined]

\* An updateTokens that assigns the refresh token of every response
UpdateTokensOverwriteRefresh(cfg, resp, t) ==
    LET c1 == [cfg EXCEPT !.accessToken = Some(resp.access_token),
                          !.refreshToken = resp.refresh_token]
    IN  IF TruthyNum(resp.expires_in)
        THEN [c1 EXCEPT !.expiresAt = Some(t + resp.expires_in[1])]
        ELSE c1

UpdateTokens(cfg, resp, t) ==
    LET c1 == [cfg EXCEPT !.accessToken = Some(resp.access_token)]
        c2 == IF TruthyStr(resp.refresh_token)
              THEN [c1 EXCEPT !.refreshToken = resp.refresh_token]
              ELSE c1
    IN  IF TruthyNum(resp.expires_in)
        THEN [c2 EXCEPT !.expiresAt = Some(t + resp.expires_in[1])]
        ELSE c2

\* An isTokenExpired that compares with > instead of >=
IsTokenExpiredStrict(cfg, bufferSeconds, t) ==
    IF cfg.expiresAt = Undefined
    THEN FALSE
    ELSE t > cfg.expiresAt[1] - bufferSeconds

IsTokenExpired(cfg, bufferSeconds, t) ==
    IF cfg.expiresAt = Undefined
    THEN FALSE
    ELSE t >= cfg.expiresAt[1] - bufferSeconds

IsAuthenticatedMgr(cfg) == TruthyStr(cfg.accessToken)

Rejected(cfg, err, reqs) ==
    [cfg |-> cfg, outcome |-> "rejected", error |-> err, value |-> Undefined,
     requests |-> reqs, refreshCalls |-> 0]

Resolved(cfg, val, reqs) ==
    [cfg |-> cfg, outcome |-> "resolved", error |-> "", value |-> val,
     requests |-> reqs, refreshCalls |-> 0]

ExchangeCodeForToken(cfg, resp, t) ==
    IF resp.kind = "throws" THEN Rejected(cfg, "fetch failed", 1)
    ELSE IF resp.kind = "non2xx" THEN Rejected(cfg, "Token exchange failed", 1)
    ELSE Resolved(UpdateTokens(cfg, resp, t), Some(resp.access_token), 1)

\* A refreshAccessToken that drops the stored tokens when the endpoint refuses
RefreshAccessTokenClearsOnFailure(cfg, resp, t) ==
    IF ~TruthyStr(cfg.refreshToken)
    THEN Rejected(cfg, "No refresh token available", 0)
    ELSE IF resp.kind = "throws" THEN Rejected(cfg, "fetch failed", 1)
    ELSE IF resp.kind = "non2xx"
    THEN Rejected([cfg EXCEPT !.accessToken = Undefined,
                              !.refreshToken = Undefined],
                  "Token refresh failed", 1)
    ELSE Resolved(UpdateTokens(cfg, resp, t), Some(resp.access_token), 1)

RefreshAccessToken(cfg, resp, t) ==
    IF ~TruthyStr(cfg.refreshToken)
    THEN Rejected(cfg, "No refresh token available", 0)
    ELSE IF resp.kind = "throws" THEN Rejected(cfg, "fetch failed", 1)
    ELSE IF resp.kind = "non2xx" THEN Rejected(cfg, "Token refresh failed", 1)
    ELSE Resolved(UpdateTokens(cfg, resp, t), Some(resp.access_token), 1)

\* A getValidAccessToken that looks at the expiry before the access token
GetValidAccessTokenRefreshFirst(cfg, resp, t) ==
    IF IsTokenExpired(cfg, BufferSeconds, t)
    THEN LET r == RefreshAccessToken(cfg, resp, t)
         IN  IF r.outcome = "rejected"
             THEN [r EXCEPT !.refreshCalls = 1]
             ELSE [r EXCEPT !.refreshCalls = 1, !.value = r.cfg.accessToken]
    ELSE IF ~TruthyStr(cfg.accessToken)
    THEN Rejected(cfg, "No access token available", 0)
    ELSE Resolved(cfg, cfg.accessToken, 0)

\* A getValidAccessToken that decides on the raw expiry, without the 60 s buffer.
GetValidAccessTokenNoBuffer(cfg, resp, t) ==
    IF ~TruthyStr(cfg.accessToken)
    THEN Rejected(cfg, "No access token available", 0)
    ELSE IF IsTokenExpired(cfg, 0, t)
    THEN LET r == RefreshAccessToken(cfg, resp, t)
         IN  IF r.outcome = "rejected"
             THEN [r EXCEPT !.refreshCalls = 1]
             ELSE [r EXCEPT !.refreshCalls = 1, !.value = r.cfg.accessToken]
    ELSE Resolved(cfg, cfg.accessToken, 0)

GetValidAccessToken(cfg, resp, t) ==
    IF ~TruthyStr(cfg.accessToken)
    THEN Rejected(cfg, "No access token available", 0)
    ELSE IF IsTokenExpired(cfg, BufferSeconds, t)
    THEN LET r == RefreshAccessToken(cfg, resp, t)
         IN  IF r.outcome = "rejected"
             THEN [r EXCEPT !.refreshCalls = 1]
             ELSE [r EXCEPT !.refreshCalls = 1, !.value = r.cfg.accessToken]
    ELSE Resolved(cfg, cfg.accessToken, 0)

SetTokens(cfg, accessToken, refreshToken, expiresAt) ==
    LET c1 == [cfg EXCEPT !.accessToken = Some(accessToken)]
        c2 == IF TruthyStr(refreshToken)
              THEN [c1 EXCEPT !.refreshToken = refreshToken]
              ELSE c1
    IN  IF expiresAt # Undefined
        THEN [c2 EXCEPT !.expiresAt = expiresAt]
        ELSE c2

(***************************************************************************)
(* BaseWidget and the vendor widgets                                       *)
(***************************************************************************)
Kinds ==
    {"apple_app_store", "google_play", "ingramspark", "draft2digital",
     "facebook", "youtube", "tiktok", "amazon_affiliate", "rss_feed"}

\* Widgets whose validateAuth builds an OAuth2Manager / stores vendor keys
OAuthKinds == {"google_play", "facebook", "youtube", "tiktok"}
KeyKinds == {"ingramspark", "draft2digital", "amazon_affiliate"}

\* An AuthConfig, by what the widgets read of it: `required` says that every
\* credential field the vendor requires is present and non-empty, `targetId`
\* that credentials carry a pageId / channelId.
AuthConfigIds == {1, 2}
AuthConfigs ==
    [id : AuthConfigIds, required : BOOLEAN,
     accessToken : {Undefined, Some("a1")},
     refreshToken : {Undefined, Some("r1")},
     targetId : BOOLEAN]

\* The AuthConfigs that differ in a field the widget of this kind reads
AuthConfigsFor(kind) ==
    {a \in AuthConfigs :
        /\ (kind \notin OAuthKinds =>
                a.accessToken = Undefined /\ a.refreshToken = Undefined)
        /\ (kind \notin {"facebook", "youtube"} => ~a.targetId)
        /\ (a.id # 1 \/ ~a.required =>
                a.accessToken = Undefined /\ a.refreshToken = Undefined
                /\ ~a.targetId)}

\* new XWidget(config): `targetId` says that customConfig carries the
\* packageName / pageId / channelId, `feeds` is customConfig.feeds.
NewWidget(kind, targetId, feeds) ==
    [kind |-> kind, initialized |-> FALSE, authConfig |-> Undefined,
     keys |-> Undefined, oauth2Manager |-> Undefined,
     jwtToken |-> Undefined, tokenExpiresAt |-> Undefined,
     targetId |-> targetId, feeds |-> feeds, feedData |-> {}]

JwtLifetime == 1200
JwtBuffer == 60

\* validateAuth of each subclass: [w, ok, error]
ValidateAuth(w) ==
    LET fail(msg) == [w |-> w, ok |-> FALSE, error |-> msg]
        a == w.authConfig[1]
    IN  IF w.kind = "rss_feed"
        THEN IF Len(w.feeds) = 0
             THEN fail("At least one RSS feed must be configured")
             ELSE [w |-> w, ok |-> TRUE, error |-> ""]
        ELSE IF w.authConfig = Undefined
        THEN fail("Authentication configuration is required")
        ELSE IF ~a.required
        THEN fail("auth requires credentials")
        ELSE IF w.kind \in OAuthKinds
        THEN LET m0 == NewConfig(a.accessToken, a.refreshToken)
                 m1 == IF TruthyStr(a.accessToken)
                       THEN SetTokens(m0, a.accessToken[1], a.refreshToken, Undefined)
                       ELSE m0
                 t1 == IF w.kind \in {"facebook", "youtube"}
                       THEN a.targetId \/ w.targetId
                       ELSE w.targetId
             IN  [w |-> [w EXCEPT !.oauth2Manager = Some(m1), !.targetId = t1],
                  ok |-> TRUE, error |-> ""]
        ELSE IF w.kind \in KeyKinds
        THEN [w |-> [w EXCEPT !.keys = Some(a.id)], ok |-> TRUE, error |-> ""]
        ELSE [w |-> w, ok |-> TRUE, error |-> ""]

\* BaseWidget.initialize: [w, outcome, error]
Initialize(w, a) ==
    LET v == ValidateAuth([w EXCEPT !.authConfig = Some(a)])
    IN  IF v.ok
        THEN [w |-> [v.w EXCEPT !.initialized = TRUE], outcome |-> "resolved",
              error |-> ""]
        ELSE [w |-> v.w, outcome |-> "rejected", error |-> v.error]

\* BaseWidget.disconnect; no subclass overrides it
Disconnect(w) == [w EXCEPT !.initialized = FALSE, !.authConfig = Undefined]

\* AppleAppStoreWidget.generateJWT: [w, ok]
GenerateJWT(w, t) ==
    IF w.authConfig = Undefined
    THEN [w |-> w, ok |-> FALSE]
    ELSE [w |-> [w EXCEPT !.jwtToken = Some("jwt"),
                          !.tokenExpiresAt = Some(t + JwtLifetime)],
          ok |-> TRUE]

\* AppleAppStoreWidget.getValidToken: [w, ok]
GetValidToken(w, t) ==
    IF \/ w.jwtToken = Undefined
       \/ w.tokenExpiresAt = Undefined
       \/ t >= w.tokenExpiresAt[1] - JwtBuffer
    THEN GenerateJWT(w, t)
    ELSE [w |-> w, ok |-> TRUE]

\* isAuthenticated of each subclass: [w, value]
IsAuthenticated(w, t) ==
    IF w.kind = "apple_app_store"
    THEN LET r == GetValidToken(w, t) IN [w |-> r.w, value |-> r.ok]
    ELSE IF w.kind \in OAuthKinds
    THEN [w |-> w,
          value |-> w.oauth2Manager # Undefined
                    /\ IsAuthenticatedMgr(w.oauth2Manager[1])]
    ELSE IF w.kind \in KeyKinds
    THEN [w |-> w, value |-> w.keys # Undefined]
    ELSE [w |-> w, value |-> TRUE]

(***************************************************************************)
(* Result envelopes                                                        *)
(***************************************************************************)
\* createSuccessResult / createErrorResult, and a call that throws
CreateSuccessResult(data) ==
    [kind |-> "result", status |-> "success", data |-> Some(data),
     error |-> Undefined]

\* An error result that also carries an (empty) data field
CreateErrorResultWithData(code, recoverable) ==
    [kind |-> "result", status |-> "error", data |-> Some(<<>>),
     error |-> Some([code |-> code, recoverable |-> recoverable])]

CreateErrorResult(code, recoverable) ==
    [kind |-> "result", status |-> "error", data |-> Undefined,
     error |-> Some([code |-> code, recoverable |-> recoverable])]

Threw(msg) ==
    [kind |-> "threw", status |-> msg, data |-> Undefined, error |-> Undefined]

NotInitialized == Threw("not initialized")
EmptyList == <<>>

\* What one data-fetch call did: the widget after it, its result, the number
\* of outbound HTTP requests it sent, the vendor's answer if it asked, and
\* whether obtaining the bearer token threw.
Fetched(w, res, sent, vendor) ==
    [w |-> w, res |-> res, calls |-> sent, vendor |-> vendor,
     tokenFailed |-> FALSE]

\* The environment of one call: the token endpoint's answer and the vendor's
VendorAnswers == {"ok", "non2xx", "throws"}

\* One vendor request and the mapping of its outcome to a result.  `throwsOnNon2xx`
\* is TRUE for the widgets whose private fetch helper throws on !response.ok.
VendorRequest(w, vendor, data, throwsOnNon2xx, sent) ==
    IF vendor = "throws"
    THEN Fetched(w, CreateErrorResult("FETCH_ERROR", TRUE), sent + 1, vendor)
    ELSE IF vendor = "non2xx"
    THEN IF throwsOnNon2xx
         THEN Fetched(w, CreateErrorResult("FETCH_ERROR", TRUE), sent + 1, vendor)
         ELSE Fetched(w, CreateErrorResult("API_ERROR", TRUE), sent + 1, vendor)
    ELSE Fetched(w, CreateSuccessResult(data), sent + 1, vendor)

\* An OAuth2 fetch whose token is obtained outside the try block
OAuthFetchTokenOutsideTry(w, tok, vendor, data, throwsOnNon2xx, t) ==
    LET r == GetValidAccessToken(w.oauth2Manager[1], tok, t)
        w1 == [w EXCEPT !.oauth2Manager = Some(r.cfg)]
    IN  IF r.outcome = "rejected"
        THEN [Fetched(w1, Threw(r.error), r.requests, "none")
                EXCEPT !.tokenFailed = TRUE]
        ELSE VendorRequest(w1, vendor, data, throwsOnNon2xx, r.requests)

\* try { token = await oauth2Manager.getValidAccessToken(); <vendor request> }
OAuthFetch(w, tok, vendor, data, throwsOnNon2xx, t) ==
    LET r == GetValidAccessToken(w.oauth2Manager[1], tok, t)
        w1 == [w EXCEPT !.oauth2Manager = Some(r.cfg)]
    IN  IF w.oauth2Manager = Undefined
        THEN [Fetched(w, CreateErrorResult("FETCH_ERROR", TRUE), 0, "none")
                EXCEPT !.tokenFailed = TRUE]
        ELSE IF r.outcome = "rejected"
        THEN [Fetched(w1, CreateErrorResult("FETCH_ERROR", TRUE), r.requests, "none")
                EXCEPT !.tokenFailed = TRUE]
        ELSE VendorRequest(w1, vendor, data, throwsOnNon2xx, r.requests)

\* try { token = await getValidToken(); <vendor request> } of AppleAppStoreWidget
JwtFetch(w, vendor, data, t) ==
    LET r == GetValidToken(w, t)
    IN  IF ~r.ok
        THEN [Fetched(w, CreateErrorResult("FETCH_ERROR", TRUE), 0, "none")
                EXCEPT !.tokenFailed = TRUE]
        ELSE VendorRequest(r.w, vendor, data, FALSE, 0)

\* RSSFeedWidget.fetchAllFeeds inside getMetrics: one request per feed, each
\* outcome stored under the feed's id; no failure reaches the caller.
FetchAllFeeds(w, vendor) ==
    [w EXCEPT !.feedData =
        {d \in w.feedData : \A i \in 1..Len(w.feeds) : d.id # w.feeds[i]}
        \cup {[id |-> w.feeds[i], failed |-> (vendor # "ok")] :
                 i \in 1..Len(w.feeds)}]

RequiresTargetId(kind) == kind \in {"google_play", "facebook"}

GetMetrics(w, tok, vendor, t) ==
    IF ~w.initialized THEN Fetched(w, NotInitialized, 0, "none")
    ELSE IF RequiresTargetId(w.kind) /\ ~w.targetId
    THEN Fetched(w, CreateErrorResult("CONFIG_ERROR", FALSE), 0, "none")
    ELSE IF w.kind = "apple_app_store" THEN JwtFetch(w, vendor, "metrics", t)
    ELSE IF w.kind = "google_play"
    THEN OAuthFetch(w, tok, vendor, "metrics", FALSE, t)
    ELSE IF w.kind \in {"facebook", "youtube", "tiktok"}
    THEN OAuthFetch(w, tok, vendor, "metrics", TRUE, t)
    ELSE IF w.kind \in {"ingramspark", "draft2digital"}
    THEN VendorRequest(w, vendor, "metrics", FALSE, 0)
    ELSE IF w.kind = "amazon_affiliate"
    THEN Fetched(w, CreateSuccessResult("metrics"), 0, "none")
    ELSE Fetched(FetchAllFeeds(w, vendor), CreateSuccessResult("metrics"),
                 Len(w.feeds), vendor)

\* A getSalesData that calls ensureInitialized() in every widget
GetSalesDataEnsureInitialized(w, tok, vendor, t) ==
    IF ~w.initialized THEN Fetched(w, NotInitialized, 0, "none")
    ELSE IF w.kind \in {"facebook", "youtube", "tiktok", "rss_feed",
                        "amazon_affiliate"}
    THEN Fetched(w, CreateSuccessResult(EmptyList), 0, "none")
    ELSE IF w.kind = "apple_app_store" THEN JwtFetch(w, vendor, EmptyList, t)
    ELSE IF w.kind = "google_play"
    THEN IF ~w.targetId
         THEN Fetched(w, CreateErrorResult("CONFIG_ERROR", FALSE), 0, "none")
         ELSE OAuthFetch(w, tok, vendor, EmptyList, FALSE, t)
    ELSE VendorRequest(w, vendor, EmptyList, FALSE, 0)

GetSalesData(w, tok, vendor, t) ==
    IF w.kind \in {"facebook", "youtube", "tiktok", "rss_feed"}
    THEN Fetched(w, CreateSuccessResult(EmptyList), 0, "none")
    ELSE IF ~w.initialized THEN Fetched(w, NotInitialized, 0, "none")
    ELSE IF w.kind = "apple_app_store" THEN JwtFetch(w, vendor, EmptyList, t)
    ELSE IF w.kind = "google_play"
    THEN IF ~w.targetId
         THEN Fetched(w, CreateErrorResult("CONFIG_ERROR", FALSE), 0, "none")
         ELSE OAuthFetch(w, tok, vendor, EmptyList, FALSE, t)
    ELSE IF w.kind \in {"ingramspark", "draft2digital"}
    THEN VendorRequest(w, vendor, EmptyList, FALSE, 0)
    ELSE Fetched(w, CreateSuccessResult(EmptyList), 0, "none")

GetDownloadStats(w, tok, vendor, t) ==
    IF w.kind \in {"ingramspark", "amazon_affiliate", "facebook", "youtube",
                   "tiktok", "rss_feed"}
    THEN Fetched(w, CreateSuccessResult(EmptyList), 0, "none")
    ELSE IF ~w.initialized THEN Fetched(w, NotInitialized, 0, "none")
    ELSE IF w.kind = "apple_app_store" THEN JwtFetch(w, vendor, EmptyList, t)
    ELSE IF w.kind = "google_play"
    THEN IF ~w.targetId
         THEN Fetched(w, CreateErrorResult("CONFIG_ERROR", FALSE), 0, "none")
         ELSE OAuthFetch(w, tok, vendor, EmptyList, FALSE, t)
    ELSE VendorRequest(w, vendor, EmptyList, FALSE, 0)

\* refreshAuth of each subclass: [w, outcome]
RefreshAuth(w, tok, t) ==
    IF w.kind = "apple_app_store"
    THEN LET r == GenerateJWT(w, t)
         IN  [w |-> r.w, outcome |-> IF r.ok THEN "resolved" ELSE "rejected"]
    ELSE IF w.kind \in OAuthKinds
    THEN IF w.oauth2Manager = Undefined
         THEN [w |-> w, outcome |-> "rejected"]
         ELSE LET r == RefreshAccessToken(w.oauth2Manager[1], tok, t)
              IN  [w |-> [w EXCEPT !.oauth2Manager = Some(r.cfg)],
                   outcome |-> r.outcome]
    ELSE IF w.kind \in KeyKinds
    THEN LET v == ValidateAuth(w)
         IN  [w |-> v.w, outcome |-> IF v.ok THEN "resolved" ELSE "rejected"]
    ELSE [w |-> w, outcome |-> "resolved"]

\* handleAuthCallback of the OAuth2 widgets: [w, outcome]
HandleAuthCallback(w, tok, t) ==
    IF w.oauth2Manager = Undefined
    THEN [w |-> w, outcome |-> "rejected"]
    ELSE LET r == ExchangeCodeForToken(w.oauth2Manager[1], tok, t)
         IN  [w |-> [w EXCEPT !.oauth2Manager = Some(r.cfg)],
              outcome |-> r.outcome]

\* The record kept of the last operation on the widget
\* The token-endpoint answers offered to a widget's OAuth2Manager
WidgetTokenResponses ==
    {r \in TokenResponses :
        /\ r.access_token = "a1"
        /\ r.refresh_token = Undefined
        /\ r.expires_in \in {Undefined, Some(120)}}

\* The token-endpoint answers that a call on a widget of this kind can meet
TokensFor(kind) ==
    IF kind \in OAuthKinds
    THEN WidgetTokenResponses
    ELSE {r \in WidgetTokenResponses : r.kind = "throws"}

NoResult == Threw("none")

WOutcome(op, outcome, pre) ==
    [op |-> op, outcome |-> outcome, res |-> NoResult, calls |-> 0,
     vendor |-> "none", tokenFailed |-> FALSE, value |-> FALSE,
     arg |-> Undefined, pre |-> pre]

FetchOutcome(op, f, pre) ==
    [WOutcome(op, f.res.kind, pre) EXCEPT
        !.res = f.res, !.calls = f.calls, !.vendor = f.vendor,
        !.tokenFailed = f.tokenFailed]

IdleWidget == NewWidget("rss_feed", FALSE, <<>>)

(***************************************************************************)
(* WidgetRegistry                                                          *)
(***************************************************************************)
MaxObjects == 3
MaxCallers == 2

WidgetIds == {"w1", "w2"}
Slots == 1..MaxCallers

\* constructor: registerBuiltInFactories
BuiltInFactories == [k \in Kinds |-> "builtin"]

\* The widget a factory builds: a built-in factory builds the widget of its
\* type, a factory registered by the caller builds an IngramSparkWidget.
FactoryCreateWidget(f, type) ==
    IF f = "builtin"
    THEN NewWidget(type, FALSE, <<>>)
    ELSE NewWidget("ingramspark", FALSE, <<>>)

EmptyMap == [x \in {} |-> 0]
\* A set that keeps the value a key already has
MapSetKeepsExisting(m, k, v) ==
    [x \in DOMAIN m \cup {k} |-> IF x \in DOMAIN m THEN m[x] ELSE v]

MapSet(m, k, v) == [x \in DOMAIN m \cup {k} |-> IF x = k THEN v ELSE m[x]]
MapDelete(m, k) == [x \in DOMAIN m \ {k} |-> m[x]]

\* getWidget / getAllWidgets: the tracked object, by its index in objs
GetWidget(id) ==
    IF id \in DOMAIN instances THEN Some(instances[id]) ELSE Undefined

GetAllWidgets == [id \in DOMAIN instances |-> instances[id]]

Snapshot == [instances |-> instances, objs |-> objs, factories |-> factories]

IdleCall ==
    [op |-> "idle", pc |-> "idle", id |-> "", obj |-> 0, targets |-> {},
     pre |-> [instances |-> EmptyMap, objs |-> <<>>,
              factories |-> BuiltInFactories]]

Returned(op, id, outcome, value, obj, targets, pre) ==
    [op |-> op, id |-> id, outcome |-> outcome, value |-> value, obj |-> obj,
     targets |-> targets, pre |-> pre]

\* rlast while no call has just completed
NoReturn == Returned("none", "", "returned", FALSE, 0, {}, IdleCall.pre)

\* A disconnect loop that stops after the first of the objects
DisconnectFirstOnly(os) ==
    [o \in DOMAIN objs |->
        IF o \in os /\ \A x \in os : o <= x
        THEN [w |-> Disconnect(objs[o].w),
              disconnects |-> objs[o].disconnects + 1]
        ELSE objs[o]]

\* widget.disconnect() called on the objects in `os`: the body of
\* BaseWidget.disconnect runs at the call, before the caller's await.
DisconnectObjects(os) ==
    [o \in DOMAIN objs |->
        IF o \in os
        THEN [w |-> Disconnect(objs[o].w),
              disconnects |-> objs[o].disconnects + 1]
        ELSE objs[o]]

\* What a factory operation can change: the factories
FactoriesBefore == [IdleCall.pre EXCEPT !.factories = factories]

\* A registerFactory that sets the factory without looking for an earlier one
RegisterFactoryOverwrites(S) ==
    \E s \in S, type \in {"ingramspark", "custom"}, f \in {"f1"} :
        /\ calls[s] = IdleCall
        /\ factories' = MapSet(factories, type, f)
        /\ rlast' = Returned("registerFactory", type, "returned", TRUE,
                             0, {}, FactoriesBefore)
        /\ UNCHANGED <<now, oauthVars, widgetVars, instances, objs, calls,
                       extVars>>

\* registerFactory(type, factory), called by a caller with no call pending
RegisterFactory(S) ==
    \E s \in S, type \in {"ingramspark", "custom"}, f \in {"f1"} :
        /\ calls[s] = IdleCall
        /\ IF type \in DOMAIN factories
           THEN /\ rlast' = Returned("registerFactory", type, "threw", FALSE, 0,
                                     {}, FactoriesBefore)
                /\ UNCHANGED factories
           ELSE /\ factories' = MapSet(factories, type, f)
                /\ rlast' = Returned("registerFactory", type, "returned", TRUE,
                                     0, {}, FactoriesBefore)
        /\ UNCHANGED <<now, oauthVars, widgetVars, instances, objs, calls,
                       extVars>>

\* unregisterFactory(type), called by a caller with no call pending
UnregisterFactory(S) ==
    \E s \in S, type \in {"ingramspark", "custom"} :
        /\ calls[s] = IdleCall
        /\ factories' = MapDelete(factories, type)
        /\ rlast' = Returned("unregisterFactory", type, "returned",
                             type \in DOMAIN factories, 0, {}, FactoriesBefore)
        /\ UNCHANGED <<now, oauthVars, widgetVars, instances, objs, calls,
                       extVars>>

CreateTypes == {"ingramspark", "unknown_type"}
CreateAuthConfigs ==
    {Undefined} \cup
    {Some(a) : a \in {x \in AuthConfigsFor("ingramspark") : x.id = 1}}

\* createWidget up to its first await: the factory lookup, the construction
\* and, with an authConfig, initialize() up to the end of validateAuth().
CreateWidgetCall(S) ==
    \E s \in S, id \in WidgetIds, type \in CreateTypes, a \in CreateAuthConfigs :
        /\ calls[s] = IdleCall
        /\ Len(objs) < MaxObjects
        /\ IF type \notin DOMAIN factories
           THEN /\ rlast' = Returned("createWidget", id, "rejected", FALSE, 0,
                                     {}, Snapshot)
                /\ UNCHANGED <<instances, objs, calls>>
           ELSE LET w0 == FactoryCreateWidget(factories[type], type)
                    o == Len(objs) + 1
                IN  IF a = Undefined
                    THEN /\ objs' = Append(objs, [w |-> w0, disconnects |-> 0])
                         /\ instances' = MapSet(instances, id, o)
                         /\ rlast' = Returned("createWidget", id, "resolved",
                                              TRUE, o, {}, Snapshot)
                         /\ UNCHANGED calls
                    ELSE LET v == ValidateAuth([w0 EXCEPT !.authConfig = a])
                         IN  /\ objs' = Append(objs, [w |-> v.w,
                                                      disconnects |-> 0])
                             /\ calls' = [calls EXCEPT ![s] =
                                   [IdleCall EXCEPT
                                      !.op = "createWidget",
                                      !.pc = IF v.ok THEN "validated"
                                             ELSE "validateRejected",
                                      !.id = id, !.obj = o,
                                      !.pre = Snapshot]]
                             /\ rlast' = NoReturn
                             /\ UNCHANGED instances
        /\ UNCHANGED <<now, oauthVars, widgetVars, factories, extVars>>

\* BaseWidget.initialize resumed after `await this.validateAuth()`
InitializeResume(S) ==
    \E s \in S :
        /\ calls[s].op = "createWidget"
        /\ calls[s].pc \in {"validated", "validateRejected"}
        /\ IF calls[s].pc = "validated"
           THEN /\ objs' = [objs EXCEPT ![calls[s].obj].w.initialized = TRUE]
                /\ calls' = [calls EXCEPT ![s].pc = "initialized"]
           ELSE /\ calls' = [calls EXCEPT ![s].pc = "initializeRejected"]
                /\ UNCHANGED objs
        /\ rlast' = NoReturn
        /\ UNCHANGED <<now, oauthVars, widgetVars, factories, instances,
                       extVars>>

\* A createWidget that tracks the widget whose initialize() rejected
CreateWidgetResumeTracksRejected(S) ==
    \E s \in S :
        /\ calls[s].op = "createWidget"
        /\ calls[s].pc \in {"initialized", "initializeRejected"}
        /\ instances' = MapSet(instances, calls[s].id, calls[s].obj)
        /\ rlast' = Returned("createWidget", calls[s].id,
                             IF calls[s].pc = "initialized"
                             THEN "resolved" ELSE "rejected",
                             calls[s].pc = "initialized", calls[s].obj, {},
                             calls[s].pre)
        /\ calls' = [calls EXCEPT ![s] = IdleCall]
        /\ UNCHANGED <<now, oauthVars, widgetVars, factories, objs, extVars>>

\* createWidget resumed after `await widget.initialize(authConfig)`
CreateWidgetResume(S) ==
    \E s \in S :
        /\ calls[s].op = "createWidget"
        /\ calls[s].pc \in {"initialized", "initializeRejected"}
        /\ IF calls[s].pc = "initialized"
           THEN /\ instances' = MapSet(instances, calls[s].id, calls[s].obj)
                /\ rlast' = Returned("createWidget", calls[s].id, "resolved",
                                     TRUE, calls[s].obj, {}, calls[s].pre)
           ELSE /\ rlast' = Returned("createWidget", calls[s].id, "rejected",
                                     FALSE, calls[s].obj, {}, calls[s].pre)
                /\ UNCHANGED instances
        /\ calls' = [calls EXCEPT ![s] = IdleCall]
        /\ UNCHANGED <<now, oauthVars, widgetVars, factories, objs, extVars>>

\* removeWidget up to `await instance.widget.disconnect()`
RemoveWidgetCall(S) ==
    \E s \in S, id \in WidgetIds :
        /\ calls[s] = IdleCall
        /\ IF id \in DOMAIN instances
           THEN /\ objs' = DisconnectObjects({instances[id]})
                /\ calls' = [calls EXCEPT ![s] =
                      [IdleCall EXCEPT !.op = "removeWidget",
                                       !.pc = "disconnecting", !.id = id,
                                       !.obj = instances[id],
                                       !.pre = Snapshot]]
                /\ rlast' = NoReturn
           ELSE /\ rlast' = Returned("removeWidget", id, "resolved", FALSE, 0,
                                     {}, Snapshot)
                /\ UNCHANGED <<objs, calls>>
        /\ UNCHANGED <<now, oauthVars, widgetVars, factories, instances,
                       extVars>>

\* A removeWidget that reports success without deleting the entry
RemoveWidgetResumeNoDelete(S) ==
    \E s \in S :
        /\ calls[s].op = "removeWidget"
        /\ rlast' = Returned("removeWidget", calls[s].id, "resolved", TRUE,
                             calls[s].obj, {}, calls[s].pre)
        /\ calls' = [calls EXCEPT ![s] = IdleCall]
        /\ UNCHANGED <<now, oauthVars, widgetVars, factories, objs, instances,
                       extVars>>

\* removeWidget resumed: return this.instances.delete(id)
RemoveWidgetResume(S) ==
    \E s \in S :
        /\ calls[s].op = "removeWidget"
        /\ instances' = MapDelete(instances, calls[s].id)
        /\ rlast' = Returned("removeWidget", calls[s].id, "resolved",
                             calls[s].id \in DOMAIN instances, calls[s].obj,
                             {}, calls[s].pre)
        /\ calls' = [calls EXCEPT ![s] = IdleCall]
        /\ UNCHANGED <<now, oauthVars, widgetVars, factories, objs, extVars>>

\* disconnectAll up to `await Promise.all(disconnectPromises)`
DisconnectAllCall(S) ==
    \E s \in S :
        /\ calls[s] = IdleCall
        /\ LET os == {instances[id] : id \in DOMAIN instances}
           IN  /\ objs' = DisconnectObjects(os)
               /\ calls' = [calls EXCEPT ![s] =
                     [IdleCall EXCEPT !.op = "disconnectAll",
                                      !.pc = "disconnecting", !.targets = os,
                                      !.pre = Snapshot]]
        /\ rlast' = NoReturn
        /\ UNCHANGED <<now, oauthVars, widgetVars, factories, instances,
                       extVars>>

\* disconnectAll resumed: this.instances.clear()
DisconnectAllResume(S) ==
    \E s \in S :
        /\ calls[s].op = "disconnectAll"
        /\ instances' = EmptyMap
        /\ rlast' = Returned("disconnectAll", "", "resolved", TRUE, 0,
                             calls[s].targets, calls[s].pre)
        /\ calls' = [calls EXCEPT ![s] = IdleCall]
        /\ UNCHANGED <<now, oauthVars, widgetVars, factories, objs, extVars>>

\* new WidgetRegistry()
IdleRegistry ==
    /\ factories = BuiltInFactories
    /\ instances = EmptyMap
    /\ objs = <<>>
    /\ calls = [s \in Slots |-> IdleCall]
    /\ rlast = NoReturn

(***************************************************************************)
(* Two OAuth2Managers built from one OAuth2Config object.  A config object *)
(* holds its strings by value and its scope array and expiresAt Date by    *)
(* reference: heap.scopes and heap.dates hold the referenced objects.      *)
(***************************************************************************)
MaxDates == 2
MaxScopeLen == 2

Managers == {1, 2}

\* { ...config }: a new object with the same field values, so the same
\* array and the same Date as the object copied
SpreadCopy(cfg) ==
    [accessToken |-> cfg.accessToken, refreshToken |-> cfg.refreshToken,
     expiresAt |-> cfg.expiresAt, scope |-> cfg.scope]

\* new Date(v) / a new array: the address of the object allocated next
NewDate(h, v) == [h EXCEPT !.dates = Append(h.dates, v)]

\* A config object with its references followed
ConfigValue(cfg) ==
    [accessToken |-> cfg.accessToken, refreshToken |-> cfg.refreshToken,
     expiresAt |-> IF cfg.expiresAt = Undefined
                   THEN Undefined
                   ELSE Some(heap.dates[cfg.expiresAt[1]]),
     scope |-> heap.scopes[cfg.scope]]

\* What manager i reports: getConfig(), isAuthenticated(), isTokenExpired()
Reports(i) ==
    [getConfig |-> ConfigValue(managers[i]),
     isAuthenticated |-> IsAuthenticatedMgr(managers[i]),
     isTokenExpired |-> IsTokenExpired(ConfigValue(managers[i]),
                                       BufferSeconds, now)]

AllReports == [i \in Managers |-> Reports(i)]

MOutcome(op, target) == [op |-> op, target |-> target, pre |-> AllReports]

ManagerTokenResponses ==
    {r \in TokenResponses :
        /\ r.kind \in {"non2xx", "ok"}
        /\ r.access_token = "a1"
        /\ r.refresh_token = Undefined
        /\ r.expires_in \in {Undefined, Some(120)}}

\* manager.setTokens(accessToken, refreshToken, expiresAt) with a Date the
\* caller has just built
MgrSetTokens ==
    \E i \in Managers, r \in {Undefined}, e \in {Undefined, Some(30)} :
        /\ e # Undefined => Len(heap.dates) < MaxDates
        /\ heap' = IF e = Undefined THEN heap ELSE NewDate(heap, e[1])
        /\ managers' =
             [managers EXCEPT ![i] =
                 SetTokens(@, "a2", r,
                           IF e = Undefined THEN Undefined
                           ELSE Some(Len(heap.dates) + 1))]
        /\ mlast' = MOutcome("setTokens", i)
        /\ UNCHANGED <<now, oauthVars, widgetVars, registryVars, restVars, callerConfig,
                       returned, campaignVars, userVars, tokenCallVars>>

\* The config after a token operation whose outcome is r: where updateTokens
\* ran `new Date(...)`, expiresAt refers to the Date allocated
StoreTokens(cfg, r, resp) ==
    IF r.outcome = "resolved" /\ TruthyNum(resp.expires_in)
    THEN [r.cfg EXCEPT !.expiresAt = Some(Len(heap.dates) + 1)]
    ELSE r.cfg

MgrTokenOperation(i, op, r, resp) ==
    /\ (r.outcome = "resolved" /\ TruthyNum(resp.expires_in))
          => Len(heap.dates) < MaxDates
    /\ heap' = IF r.outcome = "resolved" /\ TruthyNum(resp.expires_in)
               THEN NewDate(heap, r.cfg.expiresAt[1])
               ELSE heap
    /\ managers' = [managers EXCEPT ![i] = StoreTokens(@, r, resp)]
    /\ mlast' = MOutcome(op, i)
    /\ UNCHANGED <<now, oauthVars, widgetVars, registryVars, restVars, callerConfig,
                   returned, campaignVars, userVars, tokenCallVars>>

MgrExchangeCodeForToken ==
    \E i \in Managers, resp \in ManagerTokenResponses :
        MgrTokenOperation(i, "exchangeCodeForToken",
                          ExchangeCodeForToken(managers[i], resp, now), resp)

MgrRefreshAccessToken ==
    \E i \in Managers, resp \in ManagerTokenResponses :
        MgrTokenOperation(i, "refreshAccessToken",
                          RefreshAccessToken(managers[i], resp, now), resp)

\* getConfig(): return { ...this.config }
MgrGetConfig ==
    \E i \in Managers :
        /\ returned' = Some(SpreadCopy(managers[i]))
        /\ mlast' = MOutcome("getConfig", 0)
        /\ UNCHANGED <<now, oauthVars, widgetVars, registryVars, restVars, heap, managers,
                       callerConfig, campaignVars, userVars, tokenCallVars>>

\* The caller assigns a field of the object it built the managers from, or
\* of the object getConfig() returned
CallerAssignsField ==
    /\ \/ /\ callerConfig' = [callerConfig EXCEPT !.accessToken = Some("x"),
                                                  !.expiresAt = Undefined]
          /\ UNCHANGED returned
       \/ /\ returned # Undefined
          /\ returned' = Some([returned[1] EXCEPT !.accessToken = Some("x"),
                                                  !.expiresAt = Undefined])
          /\ UNCHANGED callerConfig
    /\ mlast' = MOutcome("assignField", 0)
    /\ UNCHANGED <<now, oauthVars, widgetVars, registryVars, restVars, heap, managers,
                   campaignVars, userVars, tokenCallVars>>

\* The objects the caller reaches through its config object and through the
\* object getConfig() returned
CallerObjects == {callerConfig} \cup {returned[k] : k \in DOMAIN returned}

\* config.scope.push('admin') on one of those objects
CallerPushesScope ==
    \E c \in CallerObjects :
        /\ Len(heap.scopes[c.scope]) < MaxScopeLen
        /\ heap' = [heap EXCEPT !.scopes[c.scope] = Append(@, "admin")]
        /\ mlast' = MOutcome("scope.push", 0)
        /\ UNCHANGED <<now, oauthVars, widgetVars, registryVars, restVars, managers,
                       callerConfig, returned, campaignVars, userVars,
                       tokenCallVars>>

\* config.expiresAt.setTime(0) on one of those objects
CallerSetsTime ==
    \E c \in CallerObjects :
        /\ c.expiresAt # Undefined
        /\ heap' = [heap EXCEPT !.dates[c.expiresAt[1]] = 0]
        /\ mlast' = MOutcome("expiresAt.setTime", 0)
        /\ UNCHANGED <<now, oauthVars, widgetVars, registryVars, restVars, managers,
                       callerConfig, returned, campaignVars, userVars,
                       tokenCallVars>>

\* No manager constructed
IdleManagers ==
    /\ heap = [dates |-> <<>>, scopes |-> <<>>]
    /\ managers = <<>>
    /\ callerConfig = [accessToken |-> Undefined, refreshToken |-> Undefined,
                       expiresAt |-> Undefined, scope |-> 0]
    /\ returned = Undefined
    /\ mlast = [op |-> "none", target |-> 0, pre |-> <<>>]

(***************************************************************************)
(* CampaignManager and its connectors (src/src/campaigns/PostlyConnector.ts)*)
(* used by one caller that awaits each call.  Ids are the numbers          *)
(* generateId() has produced; 0 is an id that was never produced.          *)
(***************************************************************************)
MaxIds == 2
\* The platform lists a caller passes; PostlyConnector, the one connector,
\* registers under 'facebook'
PlatformLists == {<<>>, <<"twitter", "facebook">>}

\* The answer of the Postly API to the requests of one call
ConnectorAnswers == {"ok", "non2xx"}

\* The campaign ids and post ids a caller can pass
CampaignArgs == DOMAIN campaigns \cup {0}
PostArgs(cid) ==
    {0} \cup (IF cid \in DOMAIN campaigns
              THEN {campaigns[cid].posts[k].id :
                        k \in DOMAIN campaigns[cid].posts}
              ELSE {})

\* campaign.posts.find(p => p.id === postId): the index of the post, or 0
FindPost(campaign, pid) ==
    IF \E k \in DOMAIN campaign.posts : campaign.posts[k].id = pid
    THEN CHOOSE k \in DOMAIN campaign.posts :
            /\ campaign.posts[k].id = pid
            /\ \A j \in DOMAIN campaign.posts :
                  campaign.posts[j].id = pid => k <= j
    ELSE 0

\* PostlyConnector.schedulePost / publishPost: throws when not connected or
\* when the answer is not ok
ConnectorPost(connector, answer) ==
    IF ~connector.connected THEN "rejected"
    ELSE IF answer = "ok" THEN "resolved"
    ELSE "rejected"

\* PostlyConnector.getPostMetrics: throws when not connected, answers zeros
\* without a request when no post is published, else as publishPost
ConnectorGetPostMetrics(connector, posts, answer) ==
    IF ~connector.connected THEN "rejected"
    ELSE IF \A k \in DOMAIN posts : posts[k].status # "published"
    THEN "resolved"
    ELSE IF answer = "ok" THEN "resolved"
    ELSE "rejected"

\* for (const platform of platforms) { connector = connectors.get(platform);
\*   if (connector) await connector.<call>(...) }: the number of connector
\* calls made and whether one of them rejected (which ends the loop)
RECURSIVE ForEachPlatform(_, _, _, _)
ForEachPlatform(platforms, answers, posts, i) ==
    IF i > Len(platforms) THEN [calls |-> 0, rejected |-> FALSE]
    ELSE IF platforms[i] \notin DOMAIN connectors
    THEN ForEachPlatform(platforms, answers, posts, i + 1)
    ELSE LET c == connectors[platforms[i]]
             o == IF posts = Undefined
                  THEN ConnectorPost(c, answers)
                  ELSE ConnectorGetPostMetrics(c, posts[1], answers)
         IN  IF o = "rejected"
             THEN [calls |-> 1, rejected |-> TRUE]
             ELSE [ForEachPlatform(platforms, answers, posts, i + 1)
                      EXCEPT !.calls = @ + 1]

NoEnvelope == Threw("none")

\* The post with this id as it is before the call, if there is one
PostBefore(cid, pid) ==
    IF cid \in DOMAIN campaigns /\ FindPost(campaigns[cid], pid) # 0
    THEN Some(campaigns[cid].posts[FindPost(campaigns[cid], pid)])
    ELSE Undefined

COutcome(op, outcome, cid, pid, n, env) ==
    [op |-> op, outcome |-> outcome, cid |-> cid, pid |-> pid, calls |-> n,
     env |-> env, pre |-> PostBefore(cid, pid), platforms |-> <<>>]

\* registerConnector(connector) with a PostlyConnector, initialized or not
CRegisterConnector ==
    \E connected \in BOOLEAN :
        /\ connectors' = MapSet(connectors, "facebook",
                                [connected |-> connected])
        /\ clast' = COutcome("registerConnector", "returned", 0, 0, 0, NoEnvelope)
        /\ UNCHANGED <<now, oauthVars, widgetVars, registryVars, restVars, managersVars,
                       userVars, tokenCallVars, campaigns, nextId>>

CCreateCampaign ==
    \E platforms \in PlatformLists :
        /\ nextId < MaxIds
        /\ nextId' = nextId + 1
        /\ campaigns' = MapSet(campaigns, nextId + 1,
                               [status |-> "draft", platforms |-> platforms,
                                posts |-> <<>>])
        /\ clast' = COutcome("createCampaign", "resolved", nextId + 1, 0, 0,
                             NoEnvelope)
        /\ UNCHANGED <<now, oauthVars, widgetVars, registryVars, restVars, managersVars,
                       userVars, tokenCallVars, connectors>>

CUpdateCampaignStatus ==
    \E cid \in CampaignArgs, status \in {"active"} :
        /\ campaigns' = IF cid \in DOMAIN campaigns
                        THEN [campaigns EXCEPT ![cid].status = status]
                        ELSE campaigns
        /\ clast' = COutcome("updateCampaignStatus", "resolved", cid, 0, 0,
                             NoEnvelope)
        /\ UNCHANGED <<now, oauthVars, widgetVars, registryVars, restVars, managersVars,
                       userVars, tokenCallVars, connectors, nextId>>

CDeleteCampaign ==
    \E cid \in CampaignArgs :
        /\ campaigns' = MapDelete(campaigns, cid)
        /\ clast' = COutcome("deleteCampaign", "resolved", cid, 0, 0, NoEnvelope)
        /\ UNCHANGED <<now, oauthVars, widgetVars, registryVars, restVars, managersVars,
                       userVars, tokenCallVars, connectors, nextId>>

CAddPostToCampaign ==
    \E cid \in CampaignArgs, platforms \in PlatformLists,
       scheduleOptions \in {Undefined, Some(10)} :
        IF cid \notin DOMAIN campaigns
        THEN /\ clast' = COutcome("addPostToCampaign", "resolved", cid, 0, 0,
                                  NoEnvelope)
             /\ UNCHANGED <<now, oauthVars, widgetVars, registryVars, restVars,
                            managersVars, userVars, tokenCallVars, campaigns,
                            connectors, nextId>>
        ELSE /\ nextId < MaxIds
             /\ nextId' = nextId + 1
             /\ campaigns' =
                  [campaigns EXCEPT ![cid].posts =
                      Append(@, [id |-> nextId + 1,
                                 platform |-> IF platforms = <<>>
                                              THEN "facebook"
                                              ELSE platforms[1],
                                 status |-> IF scheduleOptions # Undefined
                                            THEN "scheduled" ELSE "draft",
                                 scheduledAt |-> scheduleOptions,
                                 publishedAt |-> Undefined])]
             /\ clast' = COutcome("addPostToCampaign", "resolved", cid,
                                  nextId + 1, 0, NoEnvelope)
             /\ UNCHANGED <<now, oauthVars, widgetVars, registryVars, restVars,
                            managersVars, userVars, tokenCallVars, connectors>>

\* schedulePost: the post is marked before the connectors are called
CSchedulePost ==
    \E cid \in CampaignArgs, platforms \in PlatformLists,
       answers \in ConnectorAnswers :
    \E pid \in PostArgs(cid) :
        LET k == IF cid \in DOMAIN campaigns
                 THEN FindPost(campaigns[cid], pid) ELSE 0
            f == ForEachPlatform(platforms, answers, Undefined, 1)
        IN  /\ IF k = 0
               THEN /\ clast' = COutcome("schedulePost", "resolved", cid, 0, 0,
                                         NoEnvelope)
                    /\ UNCHANGED campaigns
               ELSE /\ campaigns' =
                         [campaigns EXCEPT ![cid].posts[k].scheduledAt = Some(20),
                                           ![cid].posts[k].status = "scheduled"]
                    /\ clast' = [COutcome("schedulePost",
                                          IF f.rejected THEN "rejected"
                                          ELSE "resolved",
                                          cid, pid, f.calls, NoEnvelope)
                                    EXCEPT !.platforms = platforms]
            /\ UNCHANGED <<now, oauthVars, widgetVars, registryVars, restVars,
                           managersVars, userVars, tokenCallVars, connectors,
                           nextId>>

\* A publishPost that marks the post before the connectors are called
CPublishPostMarksFirst ==
    \E cid \in CampaignArgs, platforms \in PlatformLists,
       answers \in ConnectorAnswers :
    \E pid \in PostArgs(cid) :
        LET k == IF cid \in DOMAIN campaigns
                 THEN FindPost(campaigns[cid], pid) ELSE 0
            f == ForEachPlatform(platforms, answers, Undefined, 1)
        IN  /\ IF k = 0
               THEN /\ clast' = COutcome("publishPost", "resolved", cid, 0, 0,
                                         NoEnvelope)
                    /\ UNCHANGED campaigns
               ELSE /\ campaigns' =
                         [campaigns EXCEPT ![cid].posts[k].status = "published",
                                           ![cid].posts[k].publishedAt = Some(now)]
                    /\ clast' = [COutcome("publishPost",
                                          IF f.rejected THEN "rejected"
                                          ELSE "resolved",
                                          cid, pid, f.calls, NoEnvelope)
                                    EXCEPT !.platforms = platforms]
            /\ UNCHANGED <<now, oauthVars, widgetVars, registryVars, restVars,
                           managersVars, userVars, tokenCallVars, connectors,
                           nextId>>

\* publishPost: the post is marked after every connector call has resolved
CPublishPost ==
    \E cid \in CampaignArgs, platforms \in PlatformLists,
       answers \in ConnectorAnswers :
    \E pid \in PostArgs(cid) :
        LET k == IF cid \in DOMAIN campaigns
                 THEN FindPost(campaigns[cid], pid) ELSE 0
            f == ForEachPlatform(platforms, answers, Undefined, 1)
        IN  /\ IF k = 0
               THEN /\ clast' = COutcome("publishPost", "resolved", cid, 0, 0,
                                         NoEnvelope)
                    /\ UNCHANGED campaigns
               ELSE IF f.rejected
               THEN /\ clast' = [COutcome("publishPost", "rejected", cid, pid,
                                          f.calls, NoEnvelope)
                                    EXCEPT !.platforms = platforms]
                    /\ UNCHANGED campaigns
               ELSE /\ campaigns' =
                         [campaigns EXCEPT ![cid].posts[k].status = "published",
                                           ![cid].posts[k].publishedAt = Some(now)]
                    /\ clast' = [COutcome("publishPost", "resolved", cid, pid,
                                          f.calls, NoEnvelope)
                                    EXCEPT !.platforms = platforms]
            /\ UNCHANGED <<now, oauthVars, widgetVars, registryVars, restVars,
                           managersVars, userVars, tokenCallVars, connectors,
                           nextId>>

\* The envelope getCampaignMetrics returns for a campaign that does not exist
CampaignNotFound ==
    [kind |-> "result", status |-> "error", data |-> Undefined,
     error |-> Some([code |-> "NOT_FOUND", recoverable |-> FALSE])]

\* The envelope getCampaignMetrics returns with the aggregated metrics
CampaignMetrics(n) ==
    [kind |-> "result", status |-> "success",
     data |-> Some([platformBreakdown |-> n]), error |-> Undefined]

CGetCampaignMetrics ==
    \E cid \in CampaignArgs, answers \in ConnectorAnswers :
        /\ IF cid \notin DOMAIN campaigns
           THEN clast' = COutcome("getCampaignMetrics", "resolved", cid, 0, 0,
                                  CampaignNotFound)
           ELSE LET f == ForEachPlatform(campaigns[cid].platforms, answers,
                                         Some(campaigns[cid].posts), 1)
                IN  clast' =
                      IF f.rejected
                      THEN COutcome("getCampaignMetrics", "rejected", cid, 0,
                                    f.calls, Threw("connector"))
                      ELSE COutcome("getCampaignMetrics", "resolved", cid, 0,
                                    f.calls, CampaignMetrics(f.calls))
        /\ UNCHANGED <<now, oauthVars, widgetVars, registryVars, restVars, managersVars,
                       userVars, tokenCallVars, campaigns, connectors, nextId>>

\* new CampaignManager()
IdleCampaigns ==
    /\ campaigns = EmptyMap
    /\ connectors = EmptyMap
    /\ nextId = 0
    /\ clast = [op |-> "none", outcome |-> "returned", cid |-> 0, pid |-> 0,
                calls |-> 0, env |-> NoEnvelope, pre |-> Undefined,
                platforms |-> <<>>]

(***************************************************************************)
(* UserService.createUser (src/backend/src/integrations/social-media/      *)
(* index.ts), split at `await bcrypt.hash(...)`                            *)
(***************************************************************************)
MaxUsers == 3

Emails == {"e1", "e2"}

\* Array.from(users.values()).find(u => u.email === email)
ExistingUser(email) == \E id \in DOMAIN users : users[id] = email

IdleUserCall == [pc |-> "idle", email |-> ""]

UOutcome(op, outcome, email, pre) ==
    [op |-> op, outcome |-> outcome, email |-> email, pre |-> pre]

\* createUser up to the await: the duplicate check
CreateUserCall(S) ==
    \E s \in S, email \in Emails :
        /\ ucalls[s] = IdleUserCall
        /\ IF ExistingUser(email)
           THEN /\ ulast' = UOutcome("createUser", "rejected", email, users)
                /\ UNCHANGED ucalls
           ELSE /\ Cardinality(DOMAIN users)
                     + Cardinality({t \in DOMAIN ucalls : ucalls[t].pc = "hashing"})
                        < MaxUsers
                /\ ucalls' = [ucalls EXCEPT ![s] = [pc |-> "hashing",
                                                    email |-> email]]
                /\ ulast' = UOutcome("none", "returned", "", users)
        /\ UNCHANGED <<now, oauthVars, widgetVars, registryVars, restVars, managersVars,
                       campaignVars, tokenCallVars, users>>

\* createUser after the await: users.set(generateId(), user); a generated id
\* is the next unused number
CreateUserResume(S) ==
    \E s \in S :
        /\ ucalls[s].pc = "hashing"
        /\ users' = MapSet(users, Cardinality(DOMAIN users) + 1, ucalls[s].email)
        /\ ucalls' = [ucalls EXCEPT ![s] = IdleUserCall]
        /\ ulast' = UOutcome("createUser", "resolved", ucalls[s].email, users)
        /\ UNCHANGED <<now, oauthVars, widgetVars, registryVars, restVars, managersVars,
                       campaignVars, tokenCallVars>>

\* The module's empty users map
IdleUsers ==
    /\ users = EmptyMap
    /\ ucalls = [s \in Slots |-> IdleUserCall]
    /\ ulast = UOutcome("none", "returned", "", EmptyMap)

(***************************************************************************)
(* OAuth2Manager.getValidAccessToken called by several callers on the      *)
(* manager `config`, split at `await fetch(this.config.tokenUrl, ...)`     *)
(***************************************************************************)
MaxRequests == 3

IdleTokenCall == [pc |-> "idle", refreshToken |-> Undefined, outcome |-> "none",
                  value |-> Undefined]

TokenCallDone(outcome, value) ==
    [pc |-> "idle", refreshToken |-> Undefined, outcome |-> outcome,
     value |-> value]

\* getValidAccessToken up to the await inside refreshAccessToken
GetValidAccessTokenCall(S) ==
    \E s \in S :
        /\ tcalls[s].pc = "idle"
        /\ IF ~TruthyStr(config.accessToken)
           THEN /\ tcalls' = [tcalls EXCEPT ![s] = TokenCallDone("rejected", Undefined)]
                /\ UNCHANGED treqs
           ELSE IF ~IsTokenExpired(config, BufferSeconds, now)
           THEN /\ tcalls' = [tcalls EXCEPT ![s] =
                                 TokenCallDone("resolved", config.accessToken)]
                /\ UNCHANGED treqs
           ELSE IF ~TruthyStr(config.refreshToken)
           THEN /\ tcalls' = [tcalls EXCEPT ![s] = TokenCallDone("rejected", Undefined)]
                /\ UNCHANGED treqs
           ELSE /\ Len(treqs) < MaxRequests
                /\ treqs' = Append(treqs, config.refreshToken[1])
                /\ tcalls' = [tcalls EXCEPT ![s] =
                                 [pc |-> "refreshing",
                                  refreshToken |-> config.refreshToken,
                                  outcome |-> "none", value |-> Undefined]]
        /\ UNCHANGED <<now, oauthVars, widgetVars, registryVars, restVars, managersVars,
                       campaignVars, userVars>>

\* The answer of the token endpoint arrives: refreshAccessToken finishes
\* (updateTokens or throw) and getValidAccessToken returns config.accessToken
GetValidAccessTokenResume(S) ==
    \E s \in S, resp \in TokenResponses :
        /\ tcalls[s].pc = "refreshing"
        /\ resp.refresh_token # Some("")
        /\ resp.expires_in \in {Undefined, Some(120)}
        /\ IF resp.kind = "ok"
           THEN /\ config' = UpdateTokens(config, resp, now)
                /\ tcalls' = [tcalls EXCEPT ![s] =
                                 TokenCallDone("resolved", config'.accessToken)]
           ELSE /\ tcalls' = [tcalls EXCEPT ![s] = TokenCallDone("rejected", Undefined)]
                /\ UNCHANGED config
        /\ UNCHANGED <<now, last, widgetVars, registryVars, restVars, managersVars,
                       campaignVars, userVars, treqs>>

\* No getValidAccessToken call made
IdleTokenCalls ==
    /\ tcalls = [s \in Slots |-> IdleTokenCall]
    /\ treqs = <<>>

(***************************************************************************)
(* RSSFeedWidget (src/unnamed/part_001): addFeed, removeFeed and           *)
(* fetchAllFeeds, split at `await Promise.allSettled(fetchPromises)`.      *)
(* An RSSFeedData is [feed, error]: the id of its `feed` field and whether  *)
(* it is an error entry.                                                   *)
(***************************************************************************)
FeedIds == {"f1", "f2", "f3"}

\* new RSSFeedWidget(config) with customConfig.feeds
NewRss(feeds) == [feeds |-> feeds, feedData |-> EmptyMap, initialized |-> FALSE]

IdleFetch == [pc |-> "idle", fetched |-> <<>>]

FOutcome(op, outcome) == [op |-> op, outcome |-> outcome]

\* this.feeds.findIndex(f => f.id === feedId): the index, or 0
FindFeed(feeds, id) ==
    IF \E i \in DOMAIN feeds : feeds[i] = id
    THEN CHOOSE i \in DOMAIN feeds :
            feeds[i] = id /\ \A j \in DOMAIN feeds : feeds[j] = id => i <= j
    ELSE 0

\* this.feeds.splice(index, 1)
Splice(feeds, index) ==
    [i \in 1..(Len(feeds) - 1) |-> IF i < index THEN feeds[i] ELSE feeds[i + 1]]

\* initialize(authConfig): validateAuth wants one feed at least
RssInitialize ==
    /\ IF Len(rss.feeds) = 0
       THEN /\ flast' = FOutcome("initialize", "rejected")
            /\ UNCHANGED rss
       ELSE /\ rss' = [rss EXCEPT !.initialized = TRUE]
            /\ flast' = FOutcome("initialize", "resolved")
    /\ UNCHANGED <<now, oauthVars, widgetVars, registryVars, managersVars,
                   campaignVars, userVars, tokenCallVars, sessionVars, fcall>>

RssAddFeed ==
    \E id \in FeedIds :
        /\ IF FindFeed(rss.feeds, id) # 0
           THEN /\ flast' = FOutcome("addFeed", "threw")
                /\ UNCHANGED rss
           ELSE /\ rss' = [rss EXCEPT !.feeds = Append(@, id)]
                /\ flast' = FOutcome("addFeed", "returned")
        /\ UNCHANGED <<now, oauthVars, widgetVars, registryVars, managersVars,
                       campaignVars, userVars, tokenCallVars, sessionVars,
                       fcall>>

RssRemoveFeed ==
    \E id \in FeedIds :
        LET index == FindFeed(rss.feeds, id)
        IN  /\ IF index # 0
               THEN rss' = [rss EXCEPT !.feeds = Splice(@, index),
                                       !.feedData = MapDelete(@, id)]
               ELSE UNCHANGED rss
            /\ flast' = FOutcome("removeFeed", "returned")
            /\ UNCHANGED <<now, oauthVars, widgetVars, registryVars,
                           managersVars, campaignVars, userVars, tokenCallVars,
                           sessionVars, fcall>>

\* fetchAllFeeds up to the await: one request per feed configured now
FetchAllFeedsCall ==
    /\ fcall = IdleFetch
    /\ IF ~rss.initialized
       THEN /\ flast' = FOutcome("fetchAllFeeds", "rejected")
            /\ UNCHANGED fcall
       ELSE /\ fcall' = [pc |-> "fetching", fetched |-> rss.feeds]
            /\ flast' = FOutcome("fetchAllFeeds", "pending")
    /\ UNCHANGED <<now, oauthVars, widgetVars, registryVars, managersVars,
                   campaignVars, userVars, tokenCallVars, sessionVars, rss>>

\* The feedData after results.forEach((result, index) => ...): the result at
\* an index is stored under the id of this.feeds[index] as it is now
StoreResults(fetched, fulfilled) ==
    LET hit == {i \in DOMAIN fetched : i <= Len(rss.feeds)}
        keys == {rss.feeds[i] : i \in hit}
        at(id) == CHOOSE i \in hit :
                     /\ rss.feeds[i] = id
                     /\ \A j \in hit : rss.feeds[j] = id => j <= i
    IN  [id \in DOMAIN rss.feedData \cup keys |->
            IF id \in keys
            THEN IF at(id) \in fulfilled
                 THEN [feed |-> fetched[at(id)], error |-> FALSE]
                 ELSE [feed |-> id, error |-> TRUE]
            ELSE rss.feedData[id]]

\* fetchAllFeeds resumed with the settled results
FetchAllFeedsResume ==
    \E fulfilled \in SUBSET DOMAIN fcall.fetched :
        /\ fcall.pc = "fetching"
        /\ rss' = [rss EXCEPT !.feedData = StoreResults(fcall.fetched, fulfilled)]
        /\ fcall' = IdleFetch
        /\ flast' = FOutcome("fetchAllFeeds", "resolved")
        /\ UNCHANGED <<now, oauthVars, widgetVars, registryVars, managersVars,
                       campaignVars, userVars, tokenCallVars, sessionVars>>

\* No RSSFeedWidget in use
IdleRss ==
    /\ rss = NewRss(<<>>)
    /\ fcall = IdleFetch
    /\ flast = FOutcome("none", "returned")

(***************************************************************************)
(* Frontend AuthProvider (src/unnamed/part_016): the React state, the      *)
(* localStorage entries, the getMe request of the mount effect, and        *)
(* login / register / logout split at their API request.                   *)
(***************************************************************************)
Accounts == {"u1", "u2"}

\* The token the API issues for an account at login / register
TokenFor(u) == IF u = "u1" THEN "t1" ELSE "t2"

\* localStorage as an earlier visit left it: the token "t0" of an account
EarlierSession(u) == [token |-> Some("t0"), user |-> Some(u)]

\* localStorage with no entry / with the entries of a session
NoStorage == [token |-> Undefined, user |-> Undefined]
StoredSession(u) == [token |-> Some(TokenFor(u)), user |-> Some(u)]

\* useState(getInitialUser), useState(getInitialToken), useState(true)
InitialSession(st) == [user |-> st.user, token |-> st.token, isLoading |-> TRUE]

\* The mount effect: getMe(storedToken) when a token is stored, else a
\* requestAnimationFrame callback
MountEffect(st) ==
    IF st.token # Undefined
    THEN [pc |-> "pending", token |-> st.token, user |-> st.user]
    ELSE [pc |-> "frame", token |-> Undefined, user |-> Undefined]

IdleSessionCall == [op |-> "idle", account |-> "", token |-> Undefined]

SOutcome(op, established) == [op |-> op, established |-> established]

\* requestAnimationFrame(() => setIsLoading(false))
AnimationFrame ==
    /\ verify.pc = "frame"
    /\ session' = [session EXCEPT !.isLoading = FALSE]
    /\ verify' = [verify EXCEPT !.pc = "done"]
    /\ slast' = SOutcome("animationFrame", slast.established)
    /\ UNCHANGED <<now, oauthVars, widgetVars, registryVars, managersVars,
                   campaignVars, userVars, tokenCallVars, rssVars, storage,
                   scall>>

\* api.getMe(storedToken).then(...): the user the stored token belongs to
GetMeResolve ==
    /\ verify.pc = "pending"
    /\ session' = [session EXCEPT !.user = verify.user, !.isLoading = FALSE]
    /\ verify' = [verify EXCEPT !.pc = "done"]
    /\ slast' = SOutcome("verified", slast.established)
    /\ UNCHANGED <<now, oauthVars, widgetVars, registryVars, managersVars,
                   campaignVars, userVars, tokenCallVars, rssVars, storage,
                   scall>>

\* api.getMe(storedToken).catch(...): storage and state are cleared
GetMeReject ==
    /\ verify.pc = "pending"
    /\ storage' = NoStorage
    /\ session' = [user |-> Undefined, token |-> Undefined, isLoading |-> FALSE]
    /\ verify' = [verify EXCEPT !.pc = "done"]
    /\ slast' = SOutcome("verifyFailed", slast.established)
    /\ UNCHANGED <<now, oauthVars, widgetVars, registryVars, managersVars,
                   campaignVars, userVars, tokenCallVars, rssVars, scall>>

\* login(email, password) up to `await api.login(...)`
LoginCall ==
    \E u \in Accounts :
        /\ scall = IdleSessionCall
        /\ scall' = [IdleSessionCall EXCEPT !.op = "login", !.account = u]
        /\ slast' = SOutcome("loginCall", slast.established)
        /\ UNCHANGED <<now, oauthVars, widgetVars, registryVars, managersVars,
                       campaignVars, userVars, tokenCallVars, rssVars, session,
                       storage, verify>>

\* register(email, password, name) up to `await api.register(...)`
RegisterCall ==
    \E u \in Accounts :
        /\ scall = IdleSessionCall
        /\ scall' = [IdleSessionCall EXCEPT !.op = "register", !.account = u]
        /\ slast' = SOutcome("registerCall", slast.established)
        /\ UNCHANGED <<now, oauthVars, widgetVars, registryVars, managersVars,
                       campaignVars, userVars, tokenCallVars, rssVars, session,
                       storage, verify>>

\* login / register resumed: the response's user and token are set in state
\* and in localStorage; a rejected request changes nothing
SignInResume(op) ==
    \E ok \in BOOLEAN :
        /\ scall.op = op
        /\ IF ok
           THEN /\ session' = [session EXCEPT
                                  !.user = Some(scall.account),
                                  !.token = Some(TokenFor(scall.account))]
                /\ storage' = StoredSession(scall.account)
                /\ slast' = SOutcome(op, Some(scall.account))
           ELSE /\ slast' = SOutcome(op, slast.established)
                /\ UNCHANGED <<session, storage>>
        /\ scall' = IdleSessionCall
        /\ UNCHANGED <<now, oauthVars, widgetVars, registryVars, managersVars,
                       campaignVars, userVars, tokenCallVars, rssVars, verify>>

LoginResume == SignInResume("login")

RegisterResume == SignInResume("register")

\* logout() up to `await api.logout(token)`; with no token it goes on at once
LogoutCall ==
    /\ scall = IdleSessionCall
    /\ IF session.token # Undefined
       THEN /\ scall' = [IdleSessionCall EXCEPT !.op = "logout",
                                                !.token = session.token]
            /\ slast' = SOutcome("logoutCall", slast.established)
            /\ UNCHANGED <<session, storage>>
       ELSE /\ session' = [session EXCEPT !.user = Undefined,
                                          !.token = Undefined]
            /\ storage' = NoStorage
            /\ slast' = SOutcome("logout", Undefined)
            /\ UNCHANGED scall
    /\ UNCHANGED <<now, oauthVars, widgetVars, registryVars, managersVars,
                   campaignVars, userVars, tokenCallVars, rssVars, verify>>

\* logout resumed, whatever api.logout answered
LogoutResume ==
    /\ scall.op = "logout"
    /\ session' = [session EXCEPT !.user = Undefined, !.token = Undefined]
    /\ storage' = NoStorage
    /\ scall' = IdleSessionCall
    /\ slast' = SOutcome("logout", Undefined)
    /\ UNCHANGED <<now, oauthVars, widgetVars, registryVars, managersVars,
                   campaignVars, userVars, tokenCallVars, rssVars, verify>>

\* No AuthProvider mounted
IdleSession ==
    /\ session = InitialSession(NoStorage)
    /\ storage = NoStorage
    /\ verify = [pc |-> "unmounted", token |-> Undefined, user |-> Undefined]
    /\ scall = IdleSessionCall
    /\ slast = SOutcome("none", Undefined)

IdleRest == IdleRss /\ IdleSession

IdleExt ==
    /\ IdleManagers
    /\ IdleCampaigns
    /\ IdleUsers
    /\ IdleTokenCalls
    /\ IdleRest

(***************************************************************************)
(* Specification of one OAuth2Manager used directly by a caller            *)
(***************************************************************************)
Outcome(op, r, pre, t) ==
    [op |-> op, outcome |-> r.outcome, error |-> r.error, value |-> r.value,
     requests |-> r.requests, refreshCalls |-> r.refreshCalls,
     pre |-> pre, at |-> t, arg |-> 0, flag |-> FALSE, resp |-> Undefined,
     given |-> Undefined]

NoOutcome ==
    [op |-> "none", outcome |-> "returned", error |-> "", value |-> Undefined,
     requests |-> 0, refreshCalls |-> 0,
     pre |-> NewConfig(Undefined, Undefined), at |-> 0, arg |-> 0,
     flag |-> FALSE, resp |-> Undefined, given |-> Undefined]

\* The answer of the token endpoint, when the call sent a request
Answered(o, resp) ==
    IF o.requests > 0 THEN [o EXCEPT !.resp = Some(resp)] ELSE o

Init ==
    /\ now = 0
    /\ \E refresh \in {Undefined, Some("r1")}, e \in {Undefined, Some(-30)} :
           config = [NewConfig(Undefined, refresh) EXCEPT !.expiresAt = e]
    /\ last = [NoOutcome EXCEPT !.pre = config]
    /\ widget = IdleWidget
    /\ wlast = WOutcome("none", "returned", IdleWidget)
    /\ IdleRegistry
    /\ IdleExt

Tick ==
    /\ now + TickStep <= MaxTime
    /\ now' = now + TickStep
    /\ last' = [NoOutcome EXCEPT !.op = "tick", !.pre = config, !.at = now']
    /\ UNCHANGED <<config, widgetVars, registryVars, extVars>>

CallSetTokens ==
    \E a \in AccessTokens, r \in {Undefined, Some("r1")},
       e \in {Undefined} \cup {Some(now + d) : d \in ExpiryOffsets} :
        /\ config' = SetTokens(config, a, r, e)
        /\ last' = [NoOutcome EXCEPT
                       !.op = "setTokens", !.pre = config, !.at = now,
                       !.given = Some([accessToken |-> a, refreshToken |-> r,
                                       expiresAt |-> e])]
        /\ UNCHANGED <<now, widgetVars, registryVars, extVars>>

CallExchangeCodeForToken ==
    \E resp \in TokenResponses :
        LET r == ExchangeCodeForToken(config, resp, now)
        IN  /\ config' = r.cfg
            /\ last' = Answered(Outcome("exchangeCodeForToken", r, config, now), resp)
            /\ UNCHANGED <<now, widgetVars, registryVars, extVars>>

CallRefreshAccessToken ==
    \E resp \in TokenResponses :
        LET r == RefreshAccessToken(config, resp, now)
        IN  /\ config' = r.cfg
            /\ last' = Answered(Outcome("refreshAccessToken", r, config, now), resp)
            /\ UNCHANGED <<now, widgetVars, registryVars, extVars>>

CallGetValidAccessToken ==
    \E resp \in TokenResponses :
        LET r == GetValidAccessToken(config, resp, now)
        IN  /\ config' = r.cfg
            /\ last' = Answered(Outcome("getValidAccessToken", r, config, now), resp)
            /\ UNCHANGED <<now, widgetVars, registryVars, extVars>>

\* isTokenExpired(bufferSeconds), called with an explicit buffer
BufferValues == {0, 30, BufferSeconds}

CallIsTokenExpired ==
    \E b \in BufferValues :
        /\ last' = [NoOutcome EXCEPT !.op = "isTokenExpired", !.pre = config,
                                     !.at = now, !.arg = b,
                                     !.flag = IsTokenExpired(config, b, now)]
        /\ UNCHANGED <<now, config, widgetVars, registryVars, extVars>>

Next ==
    \/ Tick
    \/ CallSetTokens
    \/ CallIsTokenExpired
    \/ CallExchangeCodeForToken
    \/ CallRefreshAccessToken
    \/ CallGetValidAccessToken

Spec == Init /\ [][Next]_vars

(***************************************************************************)
(* Specification of one vendor widget used directly by a caller            *)
(***************************************************************************)
InitWidget ==
    /\ now = 0
    /\ config = NewConfig(Undefined, Undefined)
    /\ last = NoOutcome
    /\ \E k \in Kinds :
       \E tid \in (IF k \in {"google_play", "facebook", "youtube"}
                   THEN BOOLEAN ELSE {FALSE}) :
       \E fs \in (IF k = "rss_feed" THEN {<<>>, <<"f1">>} ELSE {<<>>}) :
           widget = NewWidget(k, tid, fs)
    /\ wlast = WOutcome("none", "returned", widget)
    /\ IdleRegistry
    /\ IdleExt

WTick ==
    /\ now + TickStep <= MaxTime
    /\ now' = now + TickStep
    /\ wlast' = WOutcome("tick", "returned", widget)
    /\ UNCHANGED <<oauthVars, widget, registryVars, extVars>>

WInitialize ==
    \E a \in AuthConfigsFor(widget.kind) :
        LET r == Initialize(widget, a)
        IN  /\ widget' = r.w
            /\ wlast' = [WOutcome("initialize", r.outcome, widget)
                            EXCEPT !.arg = Some(a)]
            /\ UNCHANGED <<now, oauthVars, registryVars, extVars>>

WDisconnect ==
    /\ widget' = Disconnect(widget)
    /\ wlast' = WOutcome("disconnect", "resolved", widget)
    /\ UNCHANGED <<now, oauthVars, registryVars, extVars>>

WIsAuthenticated ==
    LET r == IsAuthenticated(widget, now)
    IN  /\ widget' = r.w
        /\ wlast' = [WOutcome("isAuthenticated", "resolved", widget)
                        EXCEPT !.value = r.value]
        /\ UNCHANGED <<now, oauthVars, registryVars, extVars>>

WRefreshAuth ==
    \E tok \in TokensFor(widget.kind) :
        LET r == RefreshAuth(widget, tok, now)
        IN  /\ widget' = r.w
            /\ wlast' = WOutcome("refreshAuth", r.outcome, widget)
            /\ UNCHANGED <<now, oauthVars, registryVars, extVars>>

WHandleAuthCallback ==
    /\ widget.kind \in OAuthKinds
    /\ \E tok \in WidgetTokenResponses :
        LET r == HandleAuthCallback(widget, tok, now)
        IN  /\ widget' = r.w
            /\ wlast' = WOutcome("handleAuthCallback", r.outcome, widget)
            /\ UNCHANGED <<now, oauthVars, registryVars, extVars>>

WGetMetrics ==
    \E tok \in TokensFor(widget.kind), vendor \in VendorAnswers :
        LET f == GetMetrics(widget, tok, vendor, now)
        IN  /\ widget' = f.w
            /\ wlast' = FetchOutcome("getMetrics", f, widget)
            /\ UNCHANGED <<now, oauthVars, registryVars, extVars>>

WGetSalesData ==
    \E tok \in TokensFor(widget.kind), vendor \in VendorAnswers :
        LET f == GetSalesData(widget, tok, vendor, now)
        IN  /\ widget' = f.w
            /\ wlast' = FetchOutcome("getSalesData", f, widget)
            /\ UNCHANGED <<now, oauthVars, registryVars, extVars>>

WGetDownloadStats ==
    \E tok \in TokensFor(widget.kind), vendor \in VendorAnswers :
        LET f == GetDownloadStats(widget, tok, vendor, now)
        IN  /\ widget' = f.w
            /\ wlast' = FetchOutcome("getDownloadStats", f, widget)
            /\ UNCHANGED <<now, oauthVars, registryVars, extVars>>

NextWidget ==
    \/ WTick
    \/ WInitialize
    \/ WDisconnect
    \/ WIsAuthenticated
    \/ WRefreshAuth
    \/ WHandleAuthCallback
    \/ WGetMetrics
    \/ WGetSalesData
    \/ WGetDownloadStats

SpecWidget == InitWidget /\ [][NextWidget]_vars

(***************************************************************************)
(* Specification of one WidgetRegistry whose caller awaits each call       *)
(* before it makes the next                                                *)
(***************************************************************************)
OneCaller == {1}

InitRegistry ==
    /\ now = 0
    /\ config = NewConfig(Undefined, Undefined)
    /\ last = NoOutcome
    /\ widget = IdleWidget
    /\ wlast = WOutcome("none", "returned", IdleWidget)
    /\ IdleRegistry
    /\ IdleExt

NextRegistry ==
    \/ RegisterFactory(OneCaller)
    \/ UnregisterFactory(OneCaller)
    \/ CreateWidgetCall(OneCaller)
    \/ InitializeResume(OneCaller)
    \/ CreateWidgetResume(OneCaller)
    \/ RemoveWidgetCall(OneCaller)
    \/ RemoveWidgetResume(OneCaller)
    \/ DisconnectAllCall(OneCaller)
    \/ DisconnectAllResume(OneCaller)

SpecRegistry == InitRegistry /\ [][NextRegistry]_vars

(***************************************************************************)
(* Specification of one WidgetRegistry with callers that do not await a    *)
(* call before the next call is made: the async methods overlap at their   *)
(* awaits                                                                  *)
(***************************************************************************)
NextRegistryCallers ==
    \/ CreateWidgetCall(Slots)
    \/ InitializeResume(Slots)
    \/ CreateWidgetResume(Slots)
    \/ RemoveWidgetCall(Slots)
    \/ RemoveWidgetResume(Slots)
    \/ DisconnectAllCall(Slots)
    \/ DisconnectAllResume(Slots)

SpecRegistryCallers == InitRegistry /\ [][NextRegistryCallers]_vars

(***************************************************************************)
(* Specification of two OAuth2Managers constructed from the same config    *)
(* object, and a caller that keeps that object and the getConfig() results *)
(***************************************************************************)
InitManagers ==
    /\ now = 0
    /\ config = NewConfig(Undefined, Undefined)
    /\ last = NoOutcome
    /\ widget = IdleWidget
    /\ wlast = WOutcome("none", "returned", IdleWidget)
    /\ IdleRegistry
    /\ heap = [dates |-> <<120>>, scopes |-> <<<<"read">>>>]
    /\ \E e \in {Undefined, Some(1)} :
          callerConfig = [accessToken |-> Undefined, refreshToken |-> Some("r1"),
                          expiresAt |-> e, scope |-> 1]
    /\ managers = [i \in Managers |-> SpreadCopy(callerConfig)]
    /\ returned = Undefined
    /\ mlast = MOutcome("new", 0)
    /\ IdleCampaigns
    /\ IdleUsers
    /\ IdleTokenCalls
    /\ IdleRest

NextManagers ==
    \/ MgrSetTokens
    \/ MgrExchangeCodeForToken
    \/ MgrRefreshAccessToken
    \/ MgrGetConfig
    \/ CallerAssignsField
    \/ CallerPushesScope
    \/ CallerSetsTime

SpecManagers == InitManagers /\ [][NextManagers]_vars

(***************************************************************************)
(* Specification of one CampaignManager whose caller awaits each call      *)
(***************************************************************************)
InitCampaigns ==
    /\ now = 0
    /\ config = NewConfig(Undefined, Undefined)
    /\ last = NoOutcome
    /\ widget = IdleWidget
    /\ wlast = WOutcome("none", "returned", IdleWidget)
    /\ IdleRegistry
    /\ IdleExt

NextCampaigns ==
    \/ CRegisterConnector
    \/ CCreateCampaign
    \/ CUpdateCampaignStatus
    \/ CDeleteCampaign
    \/ CAddPostToCampaign
    \/ CSchedulePost
    \/ CPublishPost
    \/ CGetCampaignMetrics

SpecCampaigns == InitCampaigns /\ [][NextCampaigns]_vars

(***************************************************************************)
(* Specification of the result envelopes: a caller that works either with  *)
(* one vendor widget or with the CampaignManager.  The two share no state  *)
(* (each one's actions leave the other's variables unchanged), so a run    *)
(* that uses both adds no envelope to those of the runs that use one.      *)
(***************************************************************************)
NextEnvelopes ==
    \/ /\ clast.op = "none"
       /\ \/ WInitialize
          \/ WGetMetrics
          \/ WGetSalesData
          \/ WGetDownloadStats
    \/ /\ wlast.op = "none"
       /\ widget = IdleWidget
       /\ NextCampaigns

SpecEnvelopes == InitWidget /\ [][NextEnvelopes]_vars

(***************************************************************************)
(* Specification of the UserService with createUser calls that overlap     *)
(***************************************************************************)
InitUsers ==
    /\ now = 0
    /\ config = NewConfig(Undefined, Undefined)
    /\ last = NoOutcome
    /\ widget = IdleWidget
    /\ wlast = WOutcome("none", "returned", IdleWidget)
    /\ IdleRegistry
    /\ IdleExt

NextUsers ==
    \/ CreateUserCall(Slots)
    \/ CreateUserResume(Slots)

SpecUsers == InitUsers /\ [][NextUsers]_vars

(***************************************************************************)
(* Specification of one OAuth2Manager with getValidAccessToken calls that  *)
(* overlap                                                                 *)
(***************************************************************************)
InitTokenCalls ==
    /\ now = 0
    /\ \E e \in {Undefined, Some(30), Some(120)} :
          config = [accessToken |-> Some("a1"), refreshToken |-> Some("r1"),
                    expiresAt |-> e]
    /\ last = [NoOutcome EXCEPT !.pre = config]
    /\ widget = IdleWidget
    /\ wlast = WOutcome("none", "returned", IdleWidget)
    /\ IdleRegistry
    /\ IdleExt

NextTokenCalls ==
    \/ Tick
    \/ GetValidAccessTokenCall(Slots)
    \/ GetValidAccessTokenResume(Slots)

SpecTokenCalls == InitTokenCalls /\ [][NextTokenCalls]_vars

(***************************************************************************)
(* Specification of one RSSFeedWidget whose caller adds and removes feeds  *)
(* while a fetchAllFeeds call is suspended                                 *)
(***************************************************************************)
InitOthersIdle ==
    /\ now = 0
    /\ config = NewConfig(Undefined, Undefined)
    /\ last = NoOutcome
    /\ widget = IdleWidget
    /\ wlast = WOutcome("none", "returned", IdleWidget)
    /\ IdleRegistry
    /\ IdleManagers
    /\ IdleCampaigns
    /\ IdleUsers
    /\ IdleTokenCalls

InitRss ==
    /\ InitOthersIdle
    /\ IdleSession
    /\ \E feeds \in {<<>>, <<"f1">>, <<"f1", "f2">>} : rss = NewRss(feeds)
    /\ fcall = IdleFetch
    /\ flast = FOutcome("none", "returned")

NextRss ==
    \/ RssInitialize
    \/ RssAddFeed
    \/ RssRemoveFeed
    \/ FetchAllFeedsCall
    \/ FetchAllFeedsResume

SpecRss == InitRss /\ [][NextRss]_vars

(***************************************************************************)
(* Specification of the AuthProvider from its mount on                     *)
(***************************************************************************)
InitSession ==
    /\ InitOthersIdle
    /\ IdleRss
    /\ \E st \in {NoStorage} \cup {EarlierSession(u) : u \in Accounts} :
          /\ storage = st
          /\ session = InitialSession(st)
          /\ verify = MountEffect(st)
    /\ scall = IdleSessionCall
    /\ slast = SOutcome("none", Undefined)

NextSession ==
    \/ AnimationFrame
    \/ GetMeResolve
    \/ GetMeReject
    \/ LoginCall
    \/ LoginResume
    \/ RegisterCall
    \/ RegisterResume
    \/ LogoutCall
    \/ LogoutResume

SpecSession == InitSession /\ [][NextSession]_vars

(***************************************************************************)
(* Properties                                                              *)
(***************************************************************************)
FetchOps == {"getMetrics", "getSalesData", "getDownloadStats"}

\* C1: whenever getValidAccessToken() resolves with a token, the stored token
\* is not expired at that moment: expiresAt is unset or now < expiresAt - 60 s.
C1_ResolvedTokenNotExpired ==
    (last.op = "getValidAccessToken" /\ last.outcome = "resolved")
        => (config.expiresAt = Undefined \/ now < config.expiresAt[1] - 60)

\* C2: one getValidAccessToken() call on a manager that holds an access token
\* invokes refreshAccessToken() exactly once if the token is expired (60 s
\* buffer) when it is called and not at all otherwise, and sends at most one
\* request to the token endpoint.
C2_RefreshOnceIffExpired ==
    (last.op = "getValidAccessToken" /\ TruthyStr(last.pre.accessToken))
        => /\ last.refreshCalls =
                (IF /\ last.pre.expiresAt # Undefined
                    /\ last.at >= last.pre.expiresAt[1] - 60
                 THEN 1 ELSE 0)
           /\ last.requests <= 1

C2_Witness ==
    /\ last.op = "getValidAccessToken"
    /\ TruthyStr(last.pre.accessToken)
    /\ last.pre.expiresAt # Undefined
    /\ last.at >= last.pre.expiresAt[1] - 60
    /\ last.at < last.pre.expiresAt[1]
    /\ last.outcome = "resolved"
    /\ last.refreshCalls = 1
    /\ last.requests = 1

\* C3: on every widget type, getMetrics, getSalesData and getDownloadStats
\* called while the widget is not initialized fail with the not-initialized
\* error, send no outbound request and change no state.
C3_FetchRequiresInitialized ==
    (wlast.op \in FetchOps /\ ~wlast.pre.initialized)
        => /\ wlast.res = NotInitialized
           /\ wlast.calls = 0
           /\ widget = wlast.pre

C5_UniformErrorTaxonomy ==
    (wlast.op \in FetchOps /\ wlast.outcome = "result")
        => /\ wlast.vendor = "non2xx"
                => wlast.res.error = Some([code |-> "API_ERROR",
                                           recoverable |-> TRUE])
           /\ wlast.vendor = "throws"
                => wlast.res.error = Some([code |-> "FETCH_ERROR",
                                           recoverable |-> TRUE])
           /\ (wlast.res.status = "error" /\ wlast.res.error[1].code = "CONFIG_ERROR")
                => ~wlast.res.error[1].recoverable

NotApplicable(op, kind) ==
    \/ /\ op = "getDownloadStats"
       /\ kind \in {"ingramspark", "amazon_affiliate", "facebook", "youtube",
                    "tiktok", "rss_feed"}
    \/ /\ op = "getSalesData"
       /\ kind \in {"facebook", "youtube", "tiktok", "rss_feed"}

\* C6: for a data shape that does not apply to the vendor, getDownloadStats /
\* getSalesData returns status 'success' with data [] and never an error,
\* whatever the lifecycle state of the widget.
C6_NotApplicableIsEmptySuccess ==
    NotApplicable(wlast.op, widget.kind)
        => /\ wlast.outcome = "result"
           /\ wlast.res.status = "success"
           /\ wlast.res.data = Some(<<>>)
           /\ wlast.res.error = Undefined

C6_Witness ==
    /\ wlast.op = "getSalesData"
    /\ widget.kind = "tiktok"
    /\ ~wlast.pre.initialized
    /\ wlast.pre.authConfig # Undefined
    /\ wlast.res.status = "success"
    /\ wlast.res.data = Some(<<>>)

\* C7: when initialize(authConfig) on a fresh widget rejects because a
\* required credential field is missing, the widget stays uninitialized:
\* isAuthenticated() then returns false and getMetrics fails with the
\* not-initialized error.
C7_RejectedInitializeStaysUninitialized ==
    (/\ wlast.op = "initialize"
     /\ wlast.outcome = "rejected"
     /\ wlast.pre = NewWidget(widget.kind, wlast.pre.targetId, wlast.pre.feeds)
     /\ ~wlast.arg[1].required
     /\ widget.kind # "rss_feed")
        => /\ ~widget.initialized
           /\ ~IsAuthenticated(widget, now).value
           /\ \A tok \in TokensFor(widget.kind), vendor \in VendorAnswers :
                 GetMetrics(widget, tok, vendor, now).res = NotInitialized

\* C8: after disconnect() on a widget that was initialized with credentials,
\* the widget holds no credentials: the auth config, the vendor key fields,
\* the cached JWT and the OAuth2 manager are discarded, isAuthenticated()
\* returns false and the widget is uninitialized.
C8_DisconnectDiscardsCredentials ==
    (wlast.op = "disconnect" /\ wlast.pre.initialized /\ widget.kind # "rss_feed")
        => /\ ~widget.initialized
           /\ widget.authConfig = Undefined
           /\ widget.keys = Undefined
           /\ widget.jwtToken = Undefined
           /\ widget.oauth2Manager = Undefined
           /\ ~IsAuthenticated(widget, now).value

\* C9: removeWidget(id) on a tracked id calls disconnect() on that widget
\* exactly once, returns true and leaves getWidget(id) undefined; on an
\* untracked id it returns false, calls no disconnect() and leaves the
\* registry unchanged.
C9_RemoveWidget ==
    rlast.op = "removeWidget"
        => /\ rlast.outcome = "resolved"
           /\ IF rlast.id \in DOMAIN rlast.pre.instances
              THEN LET o == rlast.pre.instances[rlast.id]
                   IN  /\ rlast.value = TRUE
                       /\ objs[o].disconnects = rlast.pre.objs[o].disconnects + 1
                       /\ \A x \in DOMAIN objs \ {o} :
                              objs[x].disconnects = rlast.pre.objs[x].disconnects
                       /\ GetWidget(rlast.id) = Undefined
                       /\ instances = MapDelete(rlast.pre.instances, rlast.id)
              ELSE /\ rlast.value = FALSE
                   /\ objs = rlast.pre.objs
                   /\ instances = rlast.pre.instances
                   /\ factories = rlast.pre.factories

C9_Witness ==
    /\ rlast.op = "removeWidget"
    /\ rlast.id \in DOMAIN rlast.pre.instances
    /\ rlast.pre.objs[rlast.pre.instances[rlast.id]].w.initialized
    /\ rlast.value = TRUE
    /\ DOMAIN instances # {}

\* C10: when disconnectAll() resolves, disconnect() has been called exactly
\* once on every instance that was tracked when it was called, the registry
\* tracks no instance, and the registered factories are unchanged.
C10_DisconnectAll ==
    rlast.op = "disconnectAll"
        => LET tracked == {rlast.pre.instances[id] :
                              id \in DOMAIN rlast.pre.instances}
           IN  /\ rlast.outcome = "resolved"
               /\ \A o \in DOMAIN objs :
                      objs[o].disconnects =
                          rlast.pre.objs[o].disconnects
                              + (IF o \in tracked THEN 1 ELSE 0)
               /\ DOMAIN GetAllWidgets = {}
               /\ \A id \in WidgetIds : GetWidget(id) = Undefined
               /\ factories = rlast.pre.factories

C10_Witness ==
    /\ rlast.op = "disconnectAll"
    /\ DOMAIN rlast.pre.instances = WidgetIds
    /\ \E id \in WidgetIds :
          rlast.pre.objs[rlast.pre.instances[id]].w.initialized
    /\ "custom" \in DOMAIN factories
    /\ DOMAIN instances = {}

TokenOps == {"exchangeCodeForToken", "refreshAccessToken"}

\* C11: a token operation that rejects leaves the OAuth2 state unchanged:
\* after a rejected exchangeCodeForToken or refreshAccessToken, accessToken,
\* refreshToken and expiresAt are what they were before the call, and a
\* refreshAccessToken with no stored refresh token sends no HTTP request.
C11_FailedTokenOpKeepsState ==
    (last.op \in TokenOps /\ last.outcome = "rejected")
        => /\ config = last.pre
           /\ (last.op = "refreshAccessToken" /\ ~TruthyStr(last.pre.refreshToken))
                => /\ last.requests = 0
                   /\ last.error = "No refresh token available"

C11_Witness ==
    /\ last.op = "refreshAccessToken"
    /\ last.outcome = "rejected"
    /\ last.error = "Token refresh failed"
    /\ last.requests = 1
    /\ TruthyStr(last.pre.accessToken)
    /\ TruthyStr(last.pre.refreshToken)
    /\ last.pre.expiresAt # Undefined

\* C12: getValidAccessToken() on a manager with no stored access token
\* rejects with the 'No access token' error, sends no token-endpoint request
\* (even with a stored refresh token and an expiry in the past) and changes
\* no state.
C12_NoAccessTokenRejects ==
    (last.op = "getValidAccessToken" /\ ~TruthyStr(last.pre.accessToken))
        => /\ last.outcome = "rejected"
           /\ last.error = "No access token available"
           /\ last.requests = 0
           /\ last.refreshCalls = 0
           /\ config = last.pre

C12_Witness ==
    /\ last.op = "getValidAccessToken"
    /\ last.pre.accessToken = Undefined
    /\ last.pre.refreshToken = Some("r1")
    /\ last.pre.expiresAt # Undefined
    /\ last.at >= last.pre.expiresAt[1]
    /\ last.outcome = "rejected"

\* C13: isTokenExpired(b) returns true iff expiresAt is set and
\* now >= expiresAt - b, for every buffer b >= 0 (so false when expiresAt is
\* unset); it changes no state; and while the tokens are not updated, once it
\* is true for a buffer it stays true as the clock advances.
C13_IsTokenExpired ==
    /\ [](last.op = "isTokenExpired"
            => /\ last.flag = (/\ config.expiresAt # Undefined
                               /\ now >= config.expiresAt[1] - last.arg)
               /\ config = last.pre)
    /\ [][(config' = config)
            => \A b \in BufferValues :
                  IsTokenExpired(config, b, now)
                      => IsTokenExpired(config', b, now')]_vars

C13_Witness ==
    /\ last.op = "isTokenExpired"
    /\ last.arg = 0
    /\ config.expiresAt # Undefined
    /\ now = config.expiresAt[1]
    /\ now > 0
    /\ last.flag

\* C14: after a successful exchangeCodeForToken or refreshAccessToken the
\* stored access token is the one in the response, and the stored refresh
\* token is the refresh_token of the response if the response carries one
\* (a non-empty string) and otherwise the refresh token stored before the call.
C14_UpdateTokensFrame ==
    (last.op \in TokenOps /\ last.outcome = "resolved")
        => /\ config.accessToken = Some(last.resp[1].access_token)
           /\ config.refreshToken =
                (IF /\ last.resp[1].refresh_token # Undefined
                    /\ last.resp[1].refresh_token # Some("")
                 THEN last.resp[1].refresh_token
                 ELSE last.pre.refreshToken)

C14_Witness ==
    /\ last.op = "refreshAccessToken"
    /\ last.outcome = "resolved"
    /\ last.resp[1].refresh_token = Undefined
    /\ last.pre.refreshToken = Some("r1")
    /\ config.refreshToken = Some("r1")
    /\ config.accessToken # last.pre.accessToken

\* C15: two OAuth2Managers constructed from the same config object are
\* independent: an operation on one manager changes nothing that the other
\* reports through getConfig(), isAuthenticated() and isTokenExpired(), and a
\* mutation of the caller's config object or of an object returned by
\* getConfig() changes what neither manager reports.
C15_ManagersIndependent ==
    \A i \in DOMAIN managers :
        i # mlast.target => Reports(i) = mlast.pre[i]

\* C16: registerFactory(f) throws when the type f declares is already
\* registered and leaves the factory registered before in place; otherwise it
\* registers f for that type and changes no other type, so the registry holds
\* one factory per type at most.
C16_RegisterFactoryDuplicate ==
    rlast.op = "registerFactory"
        => IF rlast.id \in DOMAIN rlast.pre.factories
           THEN /\ rlast.outcome = "threw"
                /\ factories = rlast.pre.factories
           ELSE /\ rlast.outcome = "returned"
                /\ DOMAIN factories = DOMAIN rlast.pre.factories \cup {rlast.id}
                /\ factories[rlast.id] = "f1"
                /\ \A t \in DOMAIN rlast.pre.factories :
                      factories[t] = rlast.pre.factories[t]

C16_Witness ==
    /\ rlast.op = "registerFactory"
    /\ rlast.outcome = "threw"
    /\ rlast.id = "ingramspark"
    /\ factories["ingramspark"] = "builtin"
    /\ "custom" \in DOMAIN factories

\* C17: every result envelope returned by a widget data-fetch method or by
\* CampaignManager.getCampaignMetrics has data iff its status is 'success'
\* and error iff its status is 'error', and no other status.
C17_EnvelopeShape ==
    LET EnvelopeOk(e) ==
            /\ e.status \in {"success", "error"}
            /\ (e.data # Undefined) <=> (e.status = "success")
            /\ (e.error # Undefined) <=> (e.status = "error")
    IN  /\ (wlast.op \in FetchOps /\ wlast.res.kind = "result")
              => EnvelopeOk(wlast.res)
        /\ (clast.op = "getCampaignMetrics" /\ clast.env.kind = "result")
              => EnvelopeOk(clast.env)

C17_Witness ==
    /\ clast.op = "getCampaignMetrics"
    /\ clast.env.kind = "result"
    /\ clast.env.status = "error"
    /\ clast.env.error[1].code = "NOT_FOUND"
    /\ DOMAIN campaigns # {}

\* C18: across any sequence of addPostToCampaign, schedulePost and
\* publishPost calls the status of a post only moves forward along
\* draft -> scheduled -> published|failed; in particular a post that is
\* published never returns to scheduled or draft.
C18_PublishedNeverReturns ==
    [][\A cid \in DOMAIN campaigns \cap DOMAIN campaigns' :
          \A k \in DOMAIN campaigns[cid].posts :
              campaigns[cid].posts[k].status = "published"
                  => campaigns'[cid].posts[k].status = "published"]_vars

\* C19: createUser rejects an email that belongs to a stored user, and no
\* two stored users share an email, also when createUser calls for the same
\* email overlap at the password hash.
C19_UniqueEmails ==
    /\ \A i, j \in DOMAIN users : users[i] = users[j] => i = j
    /\ (ulast.op = "createUser"
          /\ \E i \in DOMAIN ulast.pre : ulast.pre[i] = ulast.email)
          => ulast.outcome = "rejected"

\* C20: when getValidAccessToken() calls on one manager overlap while the
\* stored token is expired, one refresh request at most is in flight, no two
\* requests submit the same refresh token, and every caller gets a token.
C20_SingleRefreshInFlight ==
    /\ \A s, t \in DOMAIN tcalls :
          (tcalls[s].pc = "refreshing" /\ tcalls[t].pc = "refreshing") => s = t
    /\ \A i, j \in DOMAIN treqs :
          (treqs[i] = treqs[j] /\ i # j)
              => ~\E s \in DOMAIN tcalls : tcalls[s].pc = "refreshing"

\* C21: removeWidget(id) removes from the registry only the instance it
\* disconnected: no instance leaves the map at the return of removeWidget
\* without disconnect() having been called on it, also when createWidget
\* with the same id completes while removeWidget is suspended.
C21_RemoveWidgetRemovesDisconnected ==
    [][rlast'.op = "removeWidget"
          => \A id \in DOMAIN instances \ DOMAIN instances' :
                 objs[instances[id]].disconnects > 0]_vars

\* C22: disconnectAll() drops no widget from the registry that was not
\* disconnected: every instance that leaves the map at the return of
\* disconnectAll has had disconnect() called on it, also when createWidget
\* adds a widget while disconnectAll is suspended.
C22_DisconnectAllDropsDisconnected ==
    [][rlast'.op = "disconnectAll"
          => \A id \in DOMAIN instances \ DOMAIN instances' :
                 objs[instances[id]].disconnects > 0]_vars

\* C23: a rejected initialize(authConfig) leaves the widget's state as it
\* was (on an initialized widget it does not replace the stored auth config
\* or the vendor credentials), and a widget is never initialized while its
\* stored auth config fails validation.
C23_RejectedInitializeKeepsState ==
    /\ (wlast.op = "initialize" /\ wlast.outcome = "rejected"
          /\ wlast.pre.initialized)
          => widget = wlast.pre
    /\ widget.initialized => ValidateAuth(widget).ok

\* C24: createWidget is all-or-nothing for the registry: when the type is
\* unknown or initialize(authConfig) rejects, createWidget rejects and the
\* instances map is as it was (no entry under config.id is added and an
\* instance tracked under that id before is still tracked); a createWidget
\* that resolves with an authConfig returns an initialized, tracked widget.
C24_CreateWidgetAllOrNothing ==
    rlast.op = "createWidget"
        => IF rlast.outcome = "rejected"
           THEN /\ instances = rlast.pre.instances
                /\ \A id \in DOMAIN instances :
                       objs[instances[id]] = rlast.pre.objs[instances[id]]
           ELSE /\ rlast.outcome = "resolved"
                /\ rlast.obj \in DOMAIN objs
                /\ instances = MapSet(rlast.pre.instances, rlast.id, rlast.obj)
                /\ objs[rlast.obj].w.authConfig # Undefined
                       => objs[rlast.obj].w.initialized

C24_Witness ==
    /\ rlast.op = "createWidget"
    /\ rlast.outcome = "rejected"
    /\ rlast.obj # 0
    /\ rlast.id \in DOMAIN instances
    /\ objs[instances[rlast.id]].w.initialized

\* C25: createWidget(config) with an id that is tracked replaces the tracked
\* instance by the new one and does not call disconnect() on the prior
\* instance, which keeps its state (initialized if it was) and is tracked
\* under no id; getWidget(id) then returns the new instance.
C25_CreateWidgetReplaces ==
    (/\ rlast.op = "createWidget"
     /\ rlast.outcome = "resolved"
     /\ rlast.id \in DOMAIN rlast.pre.instances)
        => LET prior == rlast.pre.instances[rlast.id]
           IN  /\ GetWidget(rlast.id) = Some(rlast.obj)
               /\ rlast.obj # prior
               /\ objs[prior] = rlast.pre.objs[prior]
               /\ \A id \in DOMAIN instances : instances[id] # prior

C25_Witness ==
    /\ rlast.op = "createWidget"
    /\ rlast.outcome = "resolved"
    /\ rlast.id \in DOMAIN rlast.pre.instances
    /\ objs[rlast.pre.instances[rlast.id]].w.initialized
    /\ objs[rlast.pre.instances[rlast.id]].disconnects = 0
    /\ GetWidget(rlast.id) = Some(rlast.obj)

\* C26: setTokens(access, refresh?, expiresAt?) restores exactly the given
\* credentials: afterwards getConfig() reports the given access token, the
\* given refresh token and the given expiresAt, none from an earlier call
\* when one is omitted, and isTokenExpired() is false when no expiry is given.
C26_SetTokensRestoresGiven ==
    last.op = "setTokens"
        => LET g == last.given[1]
           IN  /\ config.accessToken = Some(g.accessToken)
               /\ config.refreshToken = g.refreshToken
               /\ config.expiresAt = g.expiresAt
               /\ g.expiresAt = Undefined
                      => ~IsTokenExpired(config, BufferSeconds, now)

\* The post of the last CampaignManager call as it is now
PostNow == campaigns[clast.cid].posts[FindPost(campaigns[clast.cid], clast.pid)]

\* The requested platforms that have a registered connector
Forwarded ==
    {i \in DOMAIN clast.platforms : clast.platforms[i] \in DOMAIN connectors}

\* C27: schedulePost forwards the post once to the connector of each
\* requested platform that has a registered connector, and when a connector
\* rejects, the post's status and scheduledAt are what they were before the
\* call: a post is marked 'scheduled' only when every forwarded call
\* succeeded.
C27_SchedulePostRejection ==
    (clast.op = "schedulePost" /\ clast.pre # Undefined)
        => IF clast.outcome = "rejected"
           THEN /\ PostNow.status = clast.pre[1].status
                /\ PostNow.scheduledAt = clast.pre[1].scheduledAt
           ELSE /\ PostNow.status = "scheduled"
                /\ clast.calls = Cardinality(Forwarded)

\* C28: publishPost sets status 'published' and publishedAt only after
\* publishPost has succeeded on the connector of every requested platform
\* that has one; when a connector rejects, the call rejects and the post's
\* status and publishedAt are unchanged; for an unknown campaign or post id
\* it returns without calling a connector.
C28_PublishPostAfterConnectors ==
    clast.op = "publishPost"
        => IF clast.pre = Undefined
           THEN clast.outcome = "resolved" /\ clast.calls = 0
           ELSE IF clast.outcome = "rejected"
           THEN /\ PostNow = clast.pre[1]
                /\ clast.calls >= 1
           ELSE /\ clast.outcome = "resolved"
                /\ PostNow.status = "published"
                /\ PostNow.publishedAt = Some(now)
                /\ clast.calls = Cardinality(Forwarded)

C28_Witness ==
    /\ clast.op = "publishPost"
    /\ clast.outcome = "rejected"
    /\ clast.pre # Undefined
    /\ clast.pre[1].status = "scheduled"
    /\ PostNow.status = "scheduled"
    /\ PostNow.publishedAt = Undefined
    /\ clast.calls = 1

\* C29: in RSSFeedWidget every cached feed data is stored under the id of
\* the feed it was fetched from, and only for feeds that are configured,
\* after any interleaving of fetchAllFeeds with addFeed / removeFeed.
C29_FeedDataUnderItsFeed ==
    \A id \in DOMAIN rss.feedData :
        /\ rss.feedData[id].feed = id
        /\ FindFeed(rss.feeds, id) # 0

\* C30: a session established by login() or register() is not cleared by
\* the mount-time verification of the token stored before: when the getMe
\* request for the old token fails after a login has completed, the new
\* token and user remain in state and in localStorage.
C30_VerificationKeepsSession ==
    (slast.op = "verifyFailed" /\ slast.established # Undefined)
        => LET u == slast.established[1]
           IN  /\ session.token = Some(TokenFor(u))
               /\ session.user = Some(u)
               /\ storage = StoredSession(u)

====
